---- MODULE Spec2Model ----
(***************************************************************************)
(* A model of the babel_rs protocol engine: the routing table              *)
(* (src/routing.rs), the neighbor table (src/neighbor.rs) and the node     *)
(* loop (src/node.rs) with its event queue.                                *)
(*                                                                         *)
(* Option<T> is modelled as a sequence: None is <<>> and Some(v) is <<v>>. *)
(* Instants and Durations are whole numbers of milliseconds on one         *)
(* monotonic clock, `now`.                                                 *)
(***************************************************************************)
EXTENDS Integers, Sequences, FiniteSets, TLC

(***************************************************************************)
(* Bounds of the model.                                                    *)
(***************************************************************************)
\* the clock runs from 0 to MaxTime in the runs about neighbors
MaxTime == 4
\* the clock runs from 0 to MaxClock in the runs about routes
MaxClock == 1
\* the longest routing table the stand-alone routing-table runs build
MaxRoutes == 2
\* the number of table operations a stand-alone neighbor-table run performs
MaxOps == 3
\* the number of datagrams a node run receives
MaxDgrams == 2
\* the number of TLVs in one received datagram
MaxTlvs == 2

(***************************************************************************)
(* Program constants.                                                      *)
(***************************************************************************)
\* width of u16 fields (metric, seqno, Hello history)
U16 == 65536
\* Neighbor::is_stale: hello_interval_ms.unwrap_or(4000)
DefaultHelloIntervalMs == 4000
\* BabelNode::poll: prune_stale_with_addrs(now, 3)
PruneMultiplier == 3
\* BabelNode::new_v4_multicast: seqno: 1
InitialSeqno == 1

None == <<>>
Some(v) == <<v>>
IsSome(o) == o # <<>>
Unwrap(o) == o[1]

Min(S) == CHOOSE x \in S : \A y \in S : x <= y

(***************************************************************************)
(* Input domains.                                                          *)
(***************************************************************************)
\* a SocketAddr is an IP address and a port
\* (an Ipv4Addr is its four octets, an Ipv6Addr its sixteen)
Ipv6LinkLocal == [ i \in 1..16 |-> IF i = 1 THEN 254 ELSE IF i = 2 THEN 128
                                   ELSE IF i = 16 THEN 2 ELSE 0 ]
\* the sources: 10.0.0.1 and fe80::2
Addrs == { [ip |-> <<10, 0, 0, 1>>, port |-> 6696], [ip |-> Ipv6LinkLocal, port |-> 6696] }
\* SocketAddr::ip
ip(addr) == addr.ip
\* an address a NextHop TLV can carry that is no datagram source
OtherIp == <<10, 0, 0, 9>>

\* a router-id is eight bytes
Rid(b) == [ i \in 1..8 |-> b ]
OwnRouterId == Rid(0)
RemoteRouterIds == { Rid(1), Rid(2) }
OwnIface == 1

Keys == { [ae |-> 1, plen |-> 24, prefix |-> <<192, 0, 2>>],
          [ae |-> 1, plen |-> 8, prefix |-> <<10>>] }
Metrics == {100, 65535}
Seqnos == {1, 65535}

VARIABLES
    routes,               \* RoutingTable.routes: Vec<Route>
    neighbors,            \* NeighborTable.neighbors, as get(addr): Addrs -> Option<Neighbor>
    source_info,          \* BabelNode.source_info, as get(addr): Addrs -> Option<SourceInfo>
    events,               \* BabelNode.events: Vec<Event>
    seqno,                \* BabelNode.seqno
    last_hello,           \* BabelNode.last_hello: Option<Instant>
    last_ihu,             \* BabelNode.last_ihu
    last_update_advert,   \* BabelNode.last_update_advert
    config,               \* the BabelConfig the node was built from
    now,                  \* the monotonic clock
    last,                 \* the operation performed last: its inputs and its result
    count,                \* operations (datagrams) so far, bounded by MaxOps (MaxDgrams)
    emitted,              \* history: every event pushed so far, in order
    drained               \* history: the concatenation of all drain_events results

vars == << routes, neighbors, source_info, events, seqno, last_hello, last_ihu,
           last_update_advert, config, now, last, count, emitted, drained >>

nodeTimers == << seqno, last_hello, last_ihu, last_update_advert, config >>
history == << emitted, drained >>

(***************************************************************************)
(* src/routing.rs                                                          *)
(***************************************************************************)
Route(key, metric, sq, router_id, next_hop, iface_index) ==
    [ key |-> key, metric |-> metric, seqno |-> sq, router_id |-> router_id,
      next_hop |-> next_hop, iface_index |-> iface_index ]

\* RoutingTable::routes_for: the entries with the key, in table order
routes_for(rs, key) == SelectSeq(rs, LAMBDA r : r.key = key)

\* the comparison closure of best_route: "larger is better"
best_cmp_mut(a, b) ==
    IF a.metric < b.metric THEN "Greater"
    ELSE IF a.metric > b.metric THEN "Less"
    ELSE IF a.seqno < b.seqno THEN "Greater"
    ELSE IF a.seqno > b.seqno THEN "Less"
    ELSE "Equal"

best_cmp(a, b) ==
    IF a.metric < b.metric THEN "Greater"
    ELSE IF a.metric > b.metric THEN "Less"
    ELSE IF a.seqno > b.seqno THEN "Greater"
    ELSE IF a.seqno < b.seqno THEN "Less"
    ELSE "Equal"

\* Iterator::max_by: a fold that keeps the later element unless the earlier
\* one compares Greater
RECURSIVE max_by(_, _, _)
max_by(s, i, best) ==
    IF i > Len(s) THEN best
    ELSE max_by(s, i + 1, IF best_cmp(best, s[i]) = "Greater" THEN best ELSE s[i])

\* RoutingTable::best_route
best_route(rs, key) ==
    LET m == routes_for(rs, key)
    IN  IF Len(m) = 0 THEN None ELSE Some(max_by(m, 2, m[1]))

is_better_seqno_mut(new, old) ==
    IF new.seqno > old.seqno THEN TRUE
    ELSE IF new.seqno < old.seqno THEN FALSE
    ELSE new.metric < old.metric

is_better_mut(new, old) ==
    IF new.metric < old.metric THEN TRUE
    ELSE IF new.metric > old.metric THEN FALSE
    ELSE new.seqno >= old.seqno

\* RoutingTable::is_better
is_better(new, old) ==
    IF new.metric < old.metric THEN TRUE
    ELSE IF new.metric > old.metric THEN FALSE
    ELSE new.seqno > old.seqno

same_tuple_nh_mut(r, n) ==
    /\ r.key = n.key
    /\ r.router_id = n.router_id
    /\ r.iface_index = n.iface_index

same_tuple_mut(r, n) ==
    /\ r.key = n.key
    /\ r.router_id = n.router_id
    /\ r.next_hop = n.next_hop
    /\ r.iface_index = n.iface_index
    /\ r.metric = n.metric

\* the closure of install_or_update's find
same_tuple(r, n) ==
    /\ r.key = n.key
    /\ r.router_id = n.router_id
    /\ r.next_hop = n.next_hop
    /\ r.iface_index = n.iface_index

\* RoutingTable::install_or_update: the table afterwards and the value returned
install_or_update(rs, new) ==
    LET I == { i \in 1..Len(rs) : same_tuple(rs[i], new) }
    IN  IF I # {}
        THEN IF is_better(new, rs[Min(I)])
             THEN [ routes |-> [rs EXCEPT ![Min(I)] = new], changed |-> TRUE ]
             ELSE [ routes |-> rs, changed |-> FALSE ]
        ELSE [ routes |-> Append(rs, new), changed |-> TRUE ]

\* RoutingTable::remove_by_router: the table afterwards and the count returned
remove_by_router(rs, router_id) ==
    LET kept == SelectSeq(rs, LAMBDA r : r.router_id # router_id)
    IN  [ routes |-> kept, removed |-> Len(rs) - Len(kept) ]

(***************************************************************************)
(* src/neighbor.rs                                                         *)
(***************************************************************************)
\* Neighbor::new
Neighbor_new(addr, iface_index) ==
    [ addr |-> addr, iface_index |-> iface_index,
      last_hello_seqno |-> None, hello_interval_ms |-> None, hello_history |-> 0,
      last_hello_rx |-> None, last_ihu_rx |-> None, rxcost |-> None, txcost |-> None ]

note_hello_mut(n, sq, interval_ms, t) ==
    [ n EXCEPT !.last_hello_seqno = Some(sq),
               !.hello_interval_ms = Some(interval_ms),
               !.last_hello_rx = Some(t),
               !.hello_history = (n.hello_history * 2) + 1 ]

\* Neighbor::note_hello
note_hello(n, sq, interval_ms, t) ==
    [ n EXCEPT !.last_hello_seqno = Some(sq),
               !.hello_interval_ms = Some(interval_ms),
               !.last_hello_rx = Some(t),
               !.hello_history = ((n.hello_history * 2) % U16) + 1 ]

note_ihu_mut(n, rxcost, interval_ms, t) == [ n EXCEPT !.rxcost = Some(rxcost) ]

\* Neighbor::note_ihu
note_ihu(n, rxcost, interval_ms, t) ==
    [ n EXCEPT !.rxcost = Some(rxcost), !.last_ihu_rx = Some(t) ]

\* Neighbor::set_txcost
set_txcost(n, txcost) == [ n EXCEPT !.txcost = Some(txcost) ]

link_cost_mut(n) ==
    IF IsSome(n.rxcost) /\ IsSome(n.txcost)
    THEN Some(IF Unwrap(n.rxcost) <= Unwrap(n.txcost)
              THEN Unwrap(n.rxcost) ELSE Unwrap(n.txcost))
    ELSE IF IsSome(n.rxcost) THEN n.rxcost
    ELSE IF IsSome(n.txcost) THEN n.txcost
    ELSE None

\* Neighbor::link_cost
link_cost(n) ==
    IF IsSome(n.rxcost) /\ IsSome(n.txcost)
    THEN Some(IF Unwrap(n.rxcost) >= Unwrap(n.txcost)
              THEN Unwrap(n.rxcost) ELSE Unwrap(n.txcost))
    ELSE IF IsSome(n.rxcost) THEN n.rxcost
    ELSE IF IsSome(n.txcost) THEN n.txcost
    ELSE None

\* the bitwise and of two unsigned integers
RECURSIVE BitAnd(_, _)
BitAnd(a, b) ==
    IF a = 0 \/ b = 0 THEN 0
    ELSE (a % 2) * (b % 2) + 2 * BitAnd(a \div 2, b \div 2)

is_reachable_mut(n, window) ==
    LET k == IF window <= 16 THEN window ELSE 16
        mask == IF k = 16 THEN U16 - 1 ELSE 2 ^ k
    IN  BitAnd(n.hello_history, mask) # 0

\* Neighbor::is_reachable
is_reachable(n, window) ==
    LET k == IF window <= 16 THEN window ELSE 16
        mask == IF k = 16 THEN U16 - 1 ELSE 2 ^ k - 1
    IN  BitAnd(n.hello_history, mask) # 0

\* Instant::duration_since: zero when the earlier instant is the later one
duration_since(t, earlier) == IF t >= earlier THEN t - earlier ELSE 0

is_stale_mut(n, t, multiplier) ==
    IF n.last_hello_rx = None THEN FALSE
    ELSE LET base_ms == IF IsSome(n.hello_interval_ms)
                        THEN Unwrap(n.hello_interval_ms)
                        ELSE DefaultHelloIntervalMs
         IN  duration_since(t, Unwrap(n.last_hello_rx)) >= base_ms * multiplier

is_stale_default_mut(n, t, multiplier) ==
    IF n.last_hello_rx = None THEN FALSE
    ELSE duration_since(t, Unwrap(n.last_hello_rx)) > DefaultHelloIntervalMs * multiplier

\* Neighbor::is_stale
is_stale(n, t, multiplier) ==
    IF n.last_hello_rx = None THEN FALSE
    ELSE LET base_ms == IF IsSome(n.hello_interval_ms)
                        THEN Unwrap(n.hello_interval_ms)
                        ELSE DefaultHelloIntervalMs
         IN  duration_since(t, Unwrap(n.last_hello_rx)) > base_ms * multiplier

\* NeighborTable::new
NeighborTable_new == [ a \in Addrs |-> None ]

\* NeighborTable::ensure_neighbor: entry(addr).or_insert_with(Neighbor::new)
ensure_neighbor(tbl, addr, iface_index) ==
    IF IsSome(tbl[addr]) THEN tbl
    ELSE [ tbl EXCEPT ![addr] = Some(Neighbor_new(addr, iface_index)) ]

\* NeighborTable::update_on_hello
update_on_hello(tbl, src, iface_index, sq, interval_ms, t) ==
    LET e == ensure_neighbor(tbl, src, iface_index)
    IN  [ e EXCEPT ![src] = Some(note_hello(Unwrap(e[src]), sq, interval_ms, t)) ]

\* NeighborTable::update_on_ihu
update_on_ihu(tbl, src, iface_index, rxcost, interval_ms, t) ==
    LET e == ensure_neighbor(tbl, src, iface_index)
    IN  [ e EXCEPT ![src] = Some(note_ihu(Unwrap(e[src]), rxcost, interval_ms, t)) ]

\* NeighborTable::set_txcost
table_set_txcost(tbl, addr, iface_index, txcost) ==
    LET e == ensure_neighbor(tbl, addr, iface_index)
    IN  [ e EXCEPT ![addr] = Some(set_txcost(Unwrap(e[addr]), txcost)) ]

\* the addresses whose record the retain closure of the prune functions drops
stale_addrs(tbl, t, multiplier) ==
    { a \in Addrs : IsSome(tbl[a]) /\ is_stale(Unwrap(tbl[a]), t, multiplier) }

\* HashMap::retain with the closure of the prune functions
retain_not_stale(tbl, t, multiplier) ==
    [ a \in Addrs |-> IF a \in stale_addrs(tbl, t, multiplier) THEN None ELSE tbl[a] ]

\* NeighborTable::prune_stale: the table afterwards and the count returned
prune_stale(tbl, t, multiplier) ==
    LET kept == retain_not_stale(tbl, t, multiplier)
    IN  [ neighbors |-> kept,
          removed |-> Cardinality({ a \in Addrs : IsSome(tbl[a]) })
                      - Cardinality({ a \in Addrs : IsSome(kept[a]) }) ]

\* the orders in which a HashMap can iterate over the set S
Orders(S) ==
    { s \in [1..Cardinality(S) -> S] : \A i, j \in 1..Cardinality(S) : s[i] = s[j] => i = j }

\* NeighborTable::prune_stale_with_addrs: the table afterwards and the vectors of
\* removed addresses the call can return (the map's iteration order is unspecified)
prune_stale_with_addrs(tbl, t, multiplier) ==
    [ neighbors |-> retain_not_stale(tbl, t, multiplier),
      removed |-> Orders(stale_addrs(tbl, t, multiplier)) ]

(***************************************************************************)
(* src/event.rs                                                            *)
(***************************************************************************)
NeighborUp(addr, n) == [ type |-> "NeighborUp", addr |-> addr, neighbor |-> n ]
NeighborDown(addr) == [ type |-> "NeighborDown", addr |-> addr ]
RouteUpdated(key, route) == [ type |-> "RouteUpdated", key |-> key, route |-> route ]
BestRouteChanged(key, route) ==
    [ type |-> "BestRouteChanged", key |-> key, route |-> route ]

(***************************************************************************)
(* src/tlv.rs: the TLV values the node dispatches on                       *)
(***************************************************************************)
Hello(flags, sq, interval, sub_tlvs) ==
    [ type |-> "Hello", flags |-> flags, seqno |-> sq, interval |-> interval,
      sub_tlvs |-> sub_tlvs ]
Ihu(ae, rxcost, interval, addr, sub_tlvs) ==
    [ type |-> "Ihu", ae |-> ae, rxcost |-> rxcost, interval |-> interval, addr |-> addr,
      sub_tlvs |-> sub_tlvs ]
RouterId(router_id, sub_tlvs) ==
    [ type |-> "RouterId", router_id |-> router_id, sub_tlvs |-> sub_tlvs ]
NextHop(ae, addr, sub_tlvs) ==
    [ type |-> "NextHop", ae |-> ae, addr |-> addr, sub_tlvs |-> sub_tlvs ]
Update(ae, flags, plen, omitted, interval, sq, metric, prefix, sub_tlvs) ==
    [ type |-> "Update", ae |-> ae, flags |-> flags, plen |-> plen, omitted |-> omitted,
      interval |-> interval, seqno |-> sq, metric |-> metric, prefix |-> prefix,
      sub_tlvs |-> sub_tlvs ]
Pad1 == [ type |-> "Pad1" ]

(***************************************************************************)
(* src/tlv.rs, src/packet.rs: decoding a received datagram                *)
(***************************************************************************)
\* the TLV variants the node ignores
PadN(n) == [ type |-> "PadN", n |-> n ]
AckRequest(opaque, interval, sub_tlvs) ==
    [ type |-> "AckRequest", opaque |-> opaque, interval |-> interval,
      sub_tlvs |-> sub_tlvs ]
Ack(opaque, sub_tlvs) == [ type |-> "Ack", opaque |-> opaque, sub_tlvs |-> sub_tlvs ]
RouteRequest(ae, plen, prefix, sub_tlvs) ==
    [ type |-> "RouteRequest", ae |-> ae, plen |-> plen, prefix |-> prefix,
      sub_tlvs |-> sub_tlvs ]
SeqnoRequest(ae, plen, sq, hop_count, router_id, prefix, sub_tlvs) ==
    [ type |-> "SeqnoRequest", ae |-> ae, plen |-> plen, seqno |-> sq,
      hop_count |-> hop_count, router_id |-> router_id, prefix |-> prefix,
      sub_tlvs |-> sub_tlvs ]
Unknown(tlv_type, data) == [ type |-> "Unknown", tlv_type |-> tlv_type, data |-> data ]

\* enum SubTlv
SubPad1 == [ type |-> "Pad1" ]
SubPadN(n) == [ type |-> "PadN", n |-> n ]
SubUnknown(stype, data) == [ type |-> "Unknown", stype |-> stype, data |-> data ]

\* Result<T, String>
Ok(v) == [ ok |-> TRUE, val |-> v ]
Err(e) == [ ok |-> FALSE, err |-> e ]

\* a buffer is a sequence of bytes; the bytes of buf from offset from (0-based) on
Rest(buf, from) == SubSeq(buf, from + 1, Len(buf))
\* read_u16::<BigEndian> at offset at (0-based)
be16(buf, at) == buf[at + 1] * 256 + buf[at + 2]

\* SubTlv::parse_list, from offset pos with the sub-TLVs out read so far
RECURSIVE SubTlv_parse_list(_, _, _)
SubTlv_parse_list(buf, pos, out) ==
    IF pos >= Len(buf) THEN Ok(out)
    ELSE LET stype == buf[pos + 1]
         IN  IF stype = 0 THEN SubTlv_parse_list(buf, pos + 1, Append(out, SubPad1))
             ELSE IF pos + 2 > Len(buf) THEN Err("failed to fill whole buffer")
             ELSE LET slen == buf[pos + 2]
                  IN  IF pos + 2 + slen > Len(buf) THEN Err("failed to fill whole buffer")
                      ELSE LET data == SubSeq(buf, pos + 3, pos + 2 + slen)
                               s == IF stype = 1 THEN SubPadN(slen)
                                    ELSE SubUnknown(stype, data)
                           IN  SubTlv_parse_list(buf, pos + 2 + slen, Append(out, s))

\* Tlv::parse: the address that follows the fixed fields of an IHU or NextHop, read
\* at offset at of the payload: its length by the address encoding
addr_len(ae) == IF ae = 1 THEN 4 ELSE IF ae \in {2, 3} THEN 16 ELSE 0
read_addr(payload, at, ae) ==
    IF addr_len(ae) = 0 THEN None ELSE Some(SubSeq(payload, at + 1, at + addr_len(ae)))

\* Tlv::parse: prefix length in bytes of an Update
update_prefix_len(plen, omitted) ==
    IF (plen + 7) \div 8 >= omitted THEN (plen + 7) \div 8 - omitted ELSE 0

\* Tlv::parse, the match on the type t of a TLV whose payload was extracted
parse_payload(t, payload) ==
    LET n == Len(payload)
        short == Err("failed to fill whole buffer")
        subs(from) == SubTlv_parse_list(Rest(payload, from), 0, << >>)
    IN  CASE t = 1 -> Ok(PadN(n))
          [] t = 2 ->
                IF n < 6 THEN short
                ELSE IF ~subs(6).ok THEN subs(6)
                ELSE Ok(AckRequest(be16(payload, 2), be16(payload, 4), subs(6).val))
          [] t = 3 ->
                IF n < 2 THEN short
                ELSE IF ~subs(2).ok THEN subs(2)
                ELSE Ok(Ack(be16(payload, 0), subs(2).val))
          [] t = 4 ->
                IF n < 6 THEN short
                ELSE IF ~subs(6).ok THEN subs(6)
                ELSE Ok(Hello(be16(payload, 0), be16(payload, 2), be16(payload, 4),
                              subs(6).val))
          [] t = 5 ->
                IF n < 6 \/ n < 6 + addr_len(payload[1]) THEN short
                ELSE LET ae == payload[1]
                         end == 6 + addr_len(ae)
                     IN  IF ~subs(end).ok THEN subs(end)
                         ELSE Ok(Ihu(ae, be16(payload, 2), be16(payload, 4),
                                     read_addr(payload, 6, ae), subs(end).val))
          [] t = 6 ->
                IF n < 10 THEN short
                ELSE IF ~subs(10).ok THEN subs(10)
                ELSE Ok(RouterId(SubSeq(payload, 3, 10), subs(10).val))
          [] t = 7 ->
                IF n < 2 \/ n < 2 + addr_len(payload[1]) THEN short
                ELSE LET ae == payload[1]
                         end == 2 + addr_len(ae)
                     IN  IF ~subs(end).ok THEN subs(end)
                         ELSE Ok(NextHop(ae, read_addr(payload, 2, ae), subs(end).val))
          [] t = 8 ->
                IF n < 10 \/ n < 10 + update_prefix_len(payload[3], payload[4]) THEN short
                ELSE LET end == 10 + update_prefix_len(payload[3], payload[4])
                     IN  IF ~subs(end).ok THEN subs(end)
                         ELSE Ok(Update(payload[1], payload[2], payload[3], payload[4],
                                        be16(payload, 4), be16(payload, 6),
                                        be16(payload, 8), SubSeq(payload, 11, end),
                                        subs(end).val))
          [] t = 9 ->
                IF n < 2 \/ n < 2 + (payload[2] + 7) \div 8 THEN short
                ELSE LET end == 2 + (payload[2] + 7) \div 8
                     IN  IF ~subs(end).ok THEN subs(end)
                         ELSE Ok(RouteRequest(payload[1], payload[2],
                                              SubSeq(payload, 3, end), subs(end).val))
          [] t = 10 ->
                IF n < 14 \/ n < 14 + (payload[2] + 7) \div 8 THEN short
                ELSE LET end == 14 + (payload[2] + 7) \div 8
                     IN  IF ~subs(end).ok THEN subs(end)
                         ELSE Ok(SeqnoRequest(payload[1], payload[2], be16(payload, 2),
                                              payload[5], SubSeq(payload, 7, 14),
                                              SubSeq(payload, 15, end), subs(end).val))
          [] OTHER -> Ok(Unknown(t, payload))

\* Tlv::parse at cursor position start (0-based) of buf: the TLV and the cursor
\* position after it, or the error
parse(buf, start) ==
    IF start >= Len(buf) THEN Err("EOF")
    ELSE LET t == buf[start + 1]
         IN  IF t = 0 THEN [ ok |-> TRUE, val |-> Pad1, pos |-> start + 1 ]
             ELSE IF start + 2 > Len(buf) THEN Err("failed to fill whole buffer")
             ELSE LET length == buf[start + 2]
                      pos == start + 2
                  IN  IF pos + length > Len(buf) THEN Err("Length exceeds buffer")
                      ELSE LET res == parse_payload(t, SubSeq(buf, pos + 1, pos + length))
                           IN  IF res.ok
                               THEN [ ok |-> TRUE, val |-> res.val, pos |-> pos + length ]
                               ELSE res

\* Tlv::parse_all: while let Ok(t) = Tlv::parse(&mut cur) { out.push(t) }; Ok(out)
RECURSIVE parse_all_from(_, _, _)
parse_all_from(buf, start, out) ==
    LET res == parse(buf, start)
    IN  IF res.ok THEN parse_all_from(buf, res.pos, Append(out, res.val))
        ELSE Ok(out)

parse_all(buf) == parse_all_from(buf, 0, << >>)

from_bytes_lenient_mut(buf) ==
    IF Len(buf) >= 4 /\ buf[1] = 42 /\ buf[2] = 2 /\ 4 + be16(buf, 2) <= Len(buf)
    THEN parse_all(SubSeq(buf, 5, 4 + be16(buf, 2)))
    ELSE parse_all(buf)

from_bytes_mut(buf) ==
    IF Len(buf) >= 4 /\ buf[1] = 42 /\ buf[2] = 2
    THEN LET body_len == be16(buf, 2)
         IN  IF 4 + body_len > Len(buf) THEN Err("Babel body length exceeds buffer")
             ELSE parse_all(Rest(buf, 4))
    ELSE parse_all(buf)

\* Packet::from_bytes: the TLVs of the datagram, or the error
from_bytes(buf) ==
    IF Len(buf) >= 4 /\ buf[1] = 42 /\ buf[2] = 2
    THEN LET body_len == be16(buf, 2)
         IN  IF 4 + body_len > Len(buf) THEN Err("Babel body length exceeds buffer")
             ELSE parse_all(SubSeq(buf, 5, 4 + body_len))
    ELSE parse_all(buf)

\* Packet::recv on a datagram buf received from src, and BabelNode::recv_once on
\* its result: a decoding error is an InvalidData error, which recv_once passes on
recv_once(buf, src) ==
    LET pkt == from_bytes(buf)
    IN  IF pkt.ok THEN [ kind |-> "Ok", src |-> src, tlvs |-> pkt.val ]
        ELSE [ kind |-> "Err" ]

(***************************************************************************)
(* src/tlv.rs, src/packet.rs: encoding                                     *)
(***************************************************************************)
as_u8_mut(n) == n % 128

\* a byte count or value cast to u8
as_u8(n) == n % 256
\* write_u16::<BigEndian>
u16_bytes(v) == << v \div 256, v % 256 >>
\* vec![0; n]
zeros(n) == [ i \in 1..n |-> 0 ]

\* SubTlv::len
SubTlv_len(st) ==
    CASE st.type = "Pad1" -> 1
      [] st.type = "PadN" -> 2 + st.n
      [] st.type = "Unknown" -> 2 + Len(st.data)

\* SubTlv::to_bytes
SubTlv_to_bytes(st) ==
    CASE st.type = "Pad1" -> << 0 >>
      [] st.type = "PadN" -> << 1, as_u8(st.n) >> \o zeros(st.n)
      [] st.type = "Unknown" -> << st.stype, as_u8(Len(st.data)) >> \o st.data

\* sub_tlvs.iter().map(|st| st.len()).sum()
RECURSIVE sub_tlvs_len(_)
sub_tlvs_len(subs) ==
    IF subs = << >> THEN 0 ELSE SubTlv_len(Head(subs)) + sub_tlvs_len(Tail(subs))

\* for st in sub_tlvs { buf.extend(st.to_bytes()) }
RECURSIVE sub_tlvs_bytes(_)
sub_tlvs_bytes(subs) ==
    IF subs = << >> THEN << >>
    ELSE SubTlv_to_bytes(Head(subs)) \o sub_tlvs_bytes(Tail(subs))

\* the octets of an optional address, as Tlv::to_bytes writes them
addr_bytes(addr) == IF IsSome(addr) THEN Unwrap(addr) ELSE << >>

\* Tlv::to_bytes
Tlv_to_bytes(tlv) ==
    CASE tlv.type = "Pad1" -> << 0 >>
      [] tlv.type = "PadN" -> << 1, as_u8(tlv.n) >> \o zeros(tlv.n)
      [] tlv.type = "AckRequest" ->
            << 2, as_u8(6 + sub_tlvs_len(tlv.sub_tlvs)), 0, 0 >>
            \o u16_bytes(tlv.opaque) \o u16_bytes(tlv.interval)
            \o sub_tlvs_bytes(tlv.sub_tlvs)
      [] tlv.type = "Ack" ->
            << 3, as_u8(2 + sub_tlvs_len(tlv.sub_tlvs)) >>
            \o u16_bytes(tlv.opaque) \o sub_tlvs_bytes(tlv.sub_tlvs)
      [] tlv.type = "Hello" ->
            << 4, as_u8(2 + 2 + 2 + sub_tlvs_len(tlv.sub_tlvs)) >>
            \o u16_bytes(tlv.flags) \o u16_bytes(tlv.seqno) \o u16_bytes(tlv.interval)
            \o sub_tlvs_bytes(tlv.sub_tlvs)
      [] tlv.type = "Ihu" ->
            << 5, as_u8(1 + 1 + 2 + 2 + Len(addr_bytes(tlv.addr))
                        + sub_tlvs_len(tlv.sub_tlvs)), tlv.ae, 0 >>
            \o u16_bytes(tlv.rxcost) \o u16_bytes(tlv.interval)
            \o addr_bytes(tlv.addr) \o sub_tlvs_bytes(tlv.sub_tlvs)
      [] tlv.type = "RouterId" ->
            << 6, as_u8(2 + 8 + sub_tlvs_len(tlv.sub_tlvs)), 0, 0 >>
            \o tlv.router_id \o sub_tlvs_bytes(tlv.sub_tlvs)
      [] tlv.type = "NextHop" ->
            << 7, as_u8(1 + 1 + Len(addr_bytes(tlv.addr)) + sub_tlvs_len(tlv.sub_tlvs)),
               tlv.ae, 0 >>
            \o addr_bytes(tlv.addr) \o sub_tlvs_bytes(tlv.sub_tlvs)
      [] tlv.type = "Update" ->
            << 8, as_u8(1 + 1 + 1 + 1 + 2 + 2 + 2 + Len(tlv.prefix)
                        + sub_tlvs_len(tlv.sub_tlvs)),
               tlv.ae, tlv.flags, tlv.plen, tlv.omitted >>
            \o u16_bytes(tlv.interval) \o u16_bytes(tlv.seqno) \o u16_bytes(tlv.metric)
            \o tlv.prefix \o sub_tlvs_bytes(tlv.sub_tlvs)
      [] tlv.type = "RouteRequest" ->
            << 9, as_u8(1 + 1 + Len(tlv.prefix) + sub_tlvs_len(tlv.sub_tlvs)),
               tlv.ae, tlv.plen >>
            \o tlv.prefix \o sub_tlvs_bytes(tlv.sub_tlvs)
      [] tlv.type = "SeqnoRequest" ->
            << 10, as_u8(1 + 1 + 2 + 1 + 1 + 8 + Len(tlv.prefix)
                         + sub_tlvs_len(tlv.sub_tlvs)),
               tlv.ae, tlv.plen >>
            \o u16_bytes(tlv.seqno) \o << tlv.hop_count, 0 >>
            \o tlv.router_id \o tlv.prefix \o sub_tlvs_bytes(tlv.sub_tlvs)
      [] tlv.type = "Unknown" ->
            << tlv.tlv_type, as_u8(Len(tlv.data)) >> \o tlv.data

\* self.tlvs.iter().flat_map(|t| t.to_bytes()).collect()
RECURSIVE tlvs_bytes(_)
tlvs_bytes(tlvs) ==
    IF tlvs = << >> THEN << >> ELSE Tlv_to_bytes(Head(tlvs)) \o tlvs_bytes(Tail(tlvs))

\* Packet::to_bytes: magic 42, version 2, body length, body
Packet_to_bytes(tlvs) ==
    LET body == tlvs_bytes(tlvs)
        len == Len(body) % U16
    IN  << 42, 2, len \div 256, len % 256 >> \o body

(***************************************************************************)
(* src/node.rs                                                             *)
(***************************************************************************)
\* MULTICAST_V4_ADDR, BABEL_PORT
Multicast == [ ip |-> <<224, 0, 0, 111>>, port |-> 6696 ]

\* SourceInfo::default
SourceInfo_default == [ router_id |-> None, next_hop |-> None ]

\* HashMap::entry(src).or_default()
entry_or_default(si, src) == IF IsSome(si[src]) THEN Unwrap(si[src]) ELSE SourceInfo_default

\* Duration::as_millis().try_into().unwrap_or(u16::MAX)
as_millis_u16(d) == IF d < U16 THEN d ELSE U16 - 1

push_event_mut(st, ev) == [ st EXCEPT !.events = << ev >> \o @ ]

\* BabelNode::push_event, on the part st of the node that TLV dispatch touches:
\* [routes, neighbors, source_info, events]
push_event(st, ev) == [ st EXCEPT !.events = Append(@, ev) ]

best_differs_mut(old, best) ==
    \/ old.metric # best.metric
    \/ old.seqno # best.seqno

\* install_route_and_emit_events: "Did the best route actually change?"
best_differs(old, best) ==
    \/ old.metric # best.metric
    \/ old.seqno # best.seqno
    \/ old.router_id # best.router_id
    \/ old.next_hop # best.next_hop

\* BabelNode::install_route_and_emit_events
install_route_and_emit_events(st, key, route) ==
    LET old_best == best_route(st.routes, key)
        r == install_or_update(st.routes, route)
        st1 == [ st EXCEPT !.routes = r.routes ]
        best == best_route(r.routes, key)
    IN  IF ~r.changed THEN st1
        ELSE IF best = None THEN st1
        ELSE LET st2 == push_event(st1, RouteUpdated(key, Unwrap(best)))
                 best_changed == IF old_best = None THEN TRUE
                                 ELSE best_differs(Unwrap(old_best), Unwrap(best))
             IN  IF best_changed
                 THEN push_event(st2, BestRouteChanged(key, Unwrap(best)))
                 ELSE st2

\* BabelNode::install_local_advertised_routes, from prefix i on
RECURSIVE install_local_advertised_routes(_, _, _, _)
install_local_advertised_routes(st, prefixes, sq, i) ==
    IF i > Len(prefixes) THEN st
    ELSE LET p == prefixes[i]
             key == [ ae |-> p.ae, plen |-> p.plen, prefix |-> p.prefix ]
             route == Route(key, p.metric, sq, OwnRouterId, None, OwnIface)
         IN  install_local_advertised_routes(
                 install_route_and_emit_events(st, key, route), prefixes, sq, i + 1)

hello_is_new_mut(nbrs, src) == TRUE

\* handle_tlvs_from, Hello arm: let is_new = self.neighbors.get(&src).is_none()
hello_is_new(nbrs, src) == nbrs[src] = None

router_id_of_mut(si, src) ==
    IF IsSome(si[src]) /\ IsSome(Unwrap(si[src]).router_id)
    THEN Unwrap(si[src]).router_id
    ELSE Some(Rid(1))

\* handle_tlvs_from, Update arm:
\* self.source_info.get(&src).and_then(|si| si.router_id)
router_id_of(si, src) == IF IsSome(si[src]) THEN Unwrap(si[src]).router_id ELSE None

next_hop_of_none_mut(si, src) ==
    IF IsSome(si[src]) THEN Unwrap(si[src]).next_hop ELSE None

next_hop_of_mut(si, src) == Some(ip(src))

\* handle_tlvs_from, Update arm:
\* self.source_info.get(&src).and_then(|si| si.next_hop).or(Some(src_ip))
next_hop_of(si, src) ==
    LET si_next_hop == IF IsSome(si[src]) THEN Unwrap(si[src]).next_hop ELSE None
    IN  IF IsSome(si_next_hop) THEN si_next_hop ELSE Some(ip(src))

\* handle_tlvs_from: one iteration of the loop, the match on one TLV
handle_tlv(st, src, tlv, t) ==
    CASE tlv.type = "Hello" ->
            LET is_new == hello_is_new(st.neighbors, src)
                nb == update_on_hello(st.neighbors, src, OwnIface, tlv.seqno, tlv.interval, t)
                st1 == [ st EXCEPT !.neighbors = nb ]
            IN  IF is_new /\ IsSome(nb[src])
                THEN push_event(st1, NeighborUp(src, Unwrap(nb[src])))
                ELSE st1
      [] tlv.type = "Ihu" ->
            [ st EXCEPT !.neighbors =
                update_on_ihu(st.neighbors, src, OwnIface, tlv.rxcost, tlv.interval, t) ]
      [] tlv.type = "RouterId" ->
            [ st EXCEPT !.source_info[src] =
                Some([ entry_or_default(st.source_info, src)
                       EXCEPT !.router_id = Some(tlv.router_id) ]) ]
      [] tlv.type = "NextHop" ->
            [ st EXCEPT !.source_info[src] =
                Some([ entry_or_default(st.source_info, src)
                       EXCEPT !.next_hop = IF IsSome(tlv.addr) THEN tlv.addr
                                           ELSE Some(ip(src)) ]) ]
      [] tlv.type = "Update" ->
            LET router_id_opt == router_id_of(st.source_info, src)
                nexthop_opt == next_hop_of(st.source_info, src)
                key == [ ae |-> tlv.ae, plen |-> tlv.plen, prefix |-> tlv.prefix ]
                route == Route(key, tlv.metric, tlv.seqno, Unwrap(router_id_opt),
                               nexthop_opt, OwnIface)
            IN  IF IsSome(router_id_opt)
                THEN install_route_and_emit_events(st, key, route)
                ELSE st
      [] OTHER -> st

\* BabelNode::handle_tlvs_from, from TLV i on: the TLVs in order
RECURSIVE handle_tlvs_from(_, _, _, _, _)
handle_tlvs_from(st, src, tlvs, t, i) ==
    IF i > Len(tlvs) THEN st
    ELSE handle_tlvs_from(handle_tlv(st, src, tlvs[i], t), src, tlvs, t, i + 1)

timer_due_mut(last_fire, t, interval) ==
    \/ last_fire = None
    \/ duration_since(t, Unwrap(last_fire)) > interval

\* a timer is due: never fired, or now - last >= interval
timer_due(last_fire, t, interval) ==
    \/ last_fire = None
    \/ duration_since(t, Unwrap(last_fire)) >= interval

maybe_send_hello_mut(tm, cfg, t, ok) ==
    IF timer_due(tm.last_hello, t, cfg.hello_interval_ms)
    THEN LET send == [ dest |-> Multicast, ok |-> ok,
                       tlv |-> Hello(0, tm.seqno, as_millis_u16(cfg.hello_interval_ms), << >>) ]
         IN  IF ok
             THEN [ tm |-> [ tm EXCEPT !.last_hello = Some(t) ],
                    sent |-> << send >>, err |-> FALSE ]
             ELSE [ tm |-> tm, sent |-> << send >>, err |-> TRUE ]
    ELSE [ tm |-> tm, sent |-> << >>, err |-> FALSE ]

\* BabelNode::maybe_send_hello with send_hello, on the timer part tm of the node:
\* [seqno, last_hello, last_ihu, last_update_advert]; ok: whether send_to succeeds.
\* The result is the timer part afterwards, the sends attempted and whether an
\* error was returned.
maybe_send_hello(tm, cfg, t, ok) ==
    IF timer_due(tm.last_hello, t, cfg.hello_interval_ms)
    THEN LET send == [ dest |-> Multicast, ok |-> ok,
                       tlv |-> Hello(0, tm.seqno, as_millis_u16(cfg.hello_interval_ms), << >>) ]
         IN  IF ok
             THEN [ tm |-> [ tm EXCEPT !.seqno = (tm.seqno + 1) % U16,
                                       !.last_hello = Some(t) ],
                    sent |-> << send >>, err |-> FALSE ]
             ELSE [ tm |-> tm, sent |-> << send >>, err |-> TRUE ]
    ELSE [ tm |-> tm, sent |-> << >>, err |-> FALSE ]

ihu_ae_mut(a) == 1

\* send_ihus: the address encoding of a neighbor's IP, 1 for V4 and 2 for V6
ihu_ae(a) == IF Len(a) = 4 THEN 1 ELSE 2

\* BabelNode::send_ihus from neighbor i of the iteration order on: the sends
\* attempted; the loop returns at the first failing send
RECURSIVE send_ihus(_, _, _, _)
send_ihus(order, cfg, failing, i) ==
    IF i > Len(order) THEN << >>
    ELSE LET send == [ dest |-> order[i], ok |-> order[i] \notin failing,
                       tlv |-> Ihu(ihu_ae(ip(order[i])), 256,
                                   as_millis_u16(cfg.ihu_interval_ms),
                                   Some(ip(order[i])), << >>) ]
         IN  IF send.ok THEN << send >> \o send_ihus(order, cfg, failing, i + 1)
             ELSE << send >>

\* BabelNode::maybe_send_ihus; order: the neighbors in the table's iteration order
maybe_send_ihus(tm, cfg, t, order, failing) ==
    IF Len(order) = 0 THEN [ tm |-> tm, sent |-> << >>, err |-> FALSE ]
    ELSE IF timer_due(tm.last_ihu, t, cfg.ihu_interval_ms)
    THEN LET sent == send_ihus(order, cfg, failing, 1)
         IN  IF \A i \in 1..Len(sent) : sent[i].ok
             THEN [ tm |-> [ tm EXCEPT !.last_ihu = Some(t) ], sent |-> sent, err |-> FALSE ]
             ELSE [ tm |-> tm, sent |-> sent, err |-> TRUE ]
    ELSE [ tm |-> tm, sent |-> << >>, err |-> FALSE ]

\* BabelNode::send_static_updates from prefix i on: the sends attempted; the loop
\* returns at the first failing send (failing: the indices whose send fails)
RECURSIVE send_static_updates(_, _, _, _)
send_static_updates(tm, cfg, failing, i) ==
    IF i > Len(cfg.advertised_prefixes) THEN << >>
    ELSE LET p == cfg.advertised_prefixes[i]
             send == [ dest |-> Multicast, ok |-> i \notin failing,
                       tlv |-> Update(p.ae, 0, p.plen, 0,
                                      as_millis_u16(cfg.update_interval_ms),
                                      tm.seqno, p.metric, p.prefix, << >>) ]
         IN  IF send.ok THEN << send >> \o send_static_updates(tm, cfg, failing, i + 1)
             ELSE << send >>

maybe_send_updates_mut(tm, cfg, t, failing) ==
    IF Len(cfg.advertised_prefixes) = 0 THEN [ tm |-> tm, sent |-> << >>, err |-> FALSE ]
    ELSE IF timer_due(tm.last_update_advert, t, cfg.update_interval_ms)
    THEN LET sent == send_static_updates(tm, cfg, failing, 1)
         IN  IF \A i \in 1..Len(sent) : sent[i].ok
             THEN [ tm |-> [ tm EXCEPT !.seqno = (tm.seqno + Len(sent)) % U16,
                                       !.last_update_advert = Some(t) ],
                    sent |-> sent, err |-> FALSE ]
             ELSE [ tm |-> tm, sent |-> sent, err |-> TRUE ]
    ELSE [ tm |-> tm, sent |-> << >>, err |-> FALSE ]

\* BabelNode::maybe_send_updates
maybe_send_updates(tm, cfg, t, failing) ==
    IF Len(cfg.advertised_prefixes) = 0 THEN [ tm |-> tm, sent |-> << >>, err |-> FALSE ]
    ELSE IF timer_due(tm.last_update_advert, t, cfg.update_interval_ms)
    THEN LET sent == send_static_updates(tm, cfg, failing, 1)
         IN  IF \A i \in 1..Len(sent) : sent[i].ok
             THEN [ tm |-> [ tm EXCEPT !.seqno = (tm.seqno + 1) % U16,
                                       !.last_update_advert = Some(t) ],
                    sent |-> sent, err |-> FALSE ]
             ELSE [ tm |-> tm, sent |-> sent, err |-> TRUE ]
    ELSE [ tm |-> tm, sent |-> << >>, err |-> FALSE ]

\* the addresses with a record, NeighborTable::all
known_addrs(nbrs) == { a \in Addrs : IsSome(nbrs[a]) }

\* the send outcomes of a poll in which every send_to succeeds
NoFail == [ hello |-> FALSE, ihu |-> {}, update |-> {} ]

\* the events a vector of pruned addresses gives rise to
RECURSIVE down_events(_, _)
down_events(removed, i) ==
    IF i > Len(removed) THEN << >>
    ELSE << NeighborDown(removed[i]) >> \o down_events(removed, i + 1)

(***************************************************************************)
(* BabelNode::poll.  rx is what recv_once meets: no datagram (WouldBlock), *)
(* a receive or decode error, or a decoded datagram with its source; fail  *)
(* names the sends that fail; order is the neighbor table's iteration      *)
(* order in send_ihus; removed is the vector prune_stale_with_addrs        *)
(* returns.  The timers and the dispatch read the clock at `now`, the      *)
(* prune step reads it at tp >= now.                                       *)
(***************************************************************************)
poll_timers_mut(tm0, cfg, t, order, fail) ==
    LET h == maybe_send_hello(tm0, cfg, t, ~fail.hello)
        i == maybe_send_ihus(h.tm, cfg, t, order, fail.ihu)
        u == maybe_send_updates(i.tm, cfg, t, fail.update)
    IN  IF h.err THEN [ tm |-> h.tm, sent |-> h.sent ]
        ELSE IF i.err THEN [ tm |-> i.tm, sent |-> h.sent \o i.sent ]
        ELSE [ tm |-> u.tm, sent |-> h.sent \o i.sent \o u.sent ]

\* the three timer steps of poll, in order: the timer part afterwards and the
\* sends attempted
poll_timers(tm0, cfg, t, order, fail) ==
    LET h == maybe_send_hello(tm0, cfg, t, ~fail.hello)
        i == maybe_send_ihus(h.tm, cfg, t, order, fail.ihu)
        u == maybe_send_updates(i.tm, cfg, t, fail.update)
    IN  [ tm |-> u.tm, sent |-> h.sent \o i.sent \o u.sent ]

poll_receive_mut(st0, rx, t) ==
    IF rx.kind = "Ok"
    THEN handle_tlvs_from(
             [ st0 EXCEPT !.source_info =
                 [ a \in Addrs |-> IF st0.neighbors[a] = None THEN None
                                   ELSE st0.source_info[a] ] ],
             rx.src, rx.tlvs, t, 1)
    ELSE st0

\* the receive step of poll: if let Some((tlvs, src)) = self.recv_once()?
poll_receive(st0, rx, t) ==
    IF rx.kind = "Ok" THEN handle_tlvs_from(st0, rx.src, rx.tlvs, t, 1) ELSE st0

Poll(rx, tp, order, fail) ==
    /\ tp >= now
    /\ order \in Orders(known_addrs(neighbors))
    /\ \E tmr \in { poll_timers([ seqno |-> seqno, last_hello |-> last_hello,
                                 last_ihu |-> last_ihu,
                                 last_update_advert |-> last_update_advert ],
                               config, now, order, fail) } :
       \E st1 \in { poll_receive([ routes |-> routes, neighbors |-> neighbors,
                                  source_info |-> source_info, events |-> events ],
                                rx, now) } :
          /\ count' = IF rx.kind = "WouldBlock" THEN count ELSE count + 1
          /\ seqno' = tmr.tm.seqno
          /\ last_hello' = tmr.tm.last_hello
          /\ last_ihu' = tmr.tm.last_ihu
          /\ last_update_advert' = tmr.tm.last_update_advert
          /\ routes' = st1.routes
          /\ source_info' = st1.source_info
          /\ UNCHANGED config
          /\ IF rx.kind = "Err"
             THEN \* recv_once()? returns the error: the prune step is not reached
                  /\ neighbors' = st1.neighbors
                  /\ events' = st1.events
                  /\ now' = now
                  /\ last' = [ op |-> "poll", rx |-> rx, t |-> now, tp |-> now,
                               sent |-> tmr.sent, pruned |-> FALSE, removed |-> << >>,
                               ret |-> "Err" ]
             ELSE \E pr \in { prune_stale_with_addrs(st1.neighbors, tp, PruneMultiplier) } :
                  \E removed \in pr.removed :
                     /\ neighbors' = pr.neighbors
                     /\ events' = st1.events \o down_events(removed, 1)
                     /\ now' = tp
                     /\ last' = [ op |-> "poll", rx |-> rx, t |-> now, tp |-> tp,
                                  sent |-> tmr.sent, pruned |-> TRUE,
                                  removed |-> removed, ret |-> "Ok" ]

Drain_mut ==
    /\ events' = events
    /\ last' = [ op |-> "drain_events", ret |-> events ]
    /\ drained' = drained \o last'.ret
    /\ UNCHANGED << routes, neighbors, source_info, nodeTimers, now, count, emitted >>

\* BabelNode::drain_events: std::mem::take(&mut self.events); the history of
\* drained events grows by the vector returned
Drain ==
    /\ events' = << >>
    /\ last' = [ op |-> "drain_events", ret |-> events ]
    /\ drained' = drained \o last'.ret
    /\ UNCHANGED << routes, neighbors, source_info, nodeTimers, now, count, emitted >>

\* the clock advances between two operations, up to the horizon
Tick(horizon) ==
    /\ now < horizon
    /\ now' = now + 1
    /\ last' = [ op |-> "tick" ]
    /\ UNCHANGED << routes, neighbors, source_info, events, nodeTimers, count, history >>

(***************************************************************************)
(* The node: construction, then polls, drains and the passing of time.     *)
(***************************************************************************)
AdvertisedPrefix(ae, plen, prefix, metric) ==
    [ ae |-> ae, plen |-> plen, prefix |-> prefix, metric |-> metric ]

\* BabelConfig::default with the prefixes given
BabelConfig(prefixes) ==
    [ hello_interval_ms |-> 4000, ihu_interval_ms |-> 4000, update_interval_ms |-> 10000,
      advertised_prefixes |-> prefixes ]

Configs ==
    { BabelConfig(<< >>),
      BabelConfig(<< AdvertisedPrefix(1, 24, <<192, 0, 2>>, 100) >>) }

\* BabelNode::new_v4_multicast
NodeInit(cfg) ==
    LET st == install_local_advertised_routes(
                  [ routes |-> << >>, neighbors |-> NeighborTable_new,
                    source_info |-> [ a \in Addrs |-> None ], events |-> << >> ],
                  cfg.advertised_prefixes, InitialSeqno, 1)
    IN  /\ config = cfg
        /\ seqno = InitialSeqno
        /\ last_hello = None
        /\ last_ihu = None
        /\ last_update_advert = None
        /\ routes = st.routes
        /\ neighbors = st.neighbors
        /\ source_info = st.source_info
        /\ events = st.events
        /\ emitted = st.events
        /\ drained = << >>
        /\ now = 0
        /\ count = 0
        /\ last = [ op |-> "new" ]

HelloIntervals == {0, 1}

HelloTlvs == { Hello(0, 7, iv, << >>) : iv \in HelloIntervals }
IhuTlvs == { Ihu(1, 256, 4000, None, << >>) }
RouterIdTlvs == { RouterId(r, << >>) : r \in RemoteRouterIds }
NextHopTlvs == { NextHop(1, a, << >>) : a \in { None, Some(OtherIp) } }
\* the prefix the node's peers announce: the one the node itself may advertise
NodeKeys == { [ae |-> 1, plen |-> 24, prefix |-> <<192, 0, 2>>] }
UpdateTlvs ==
    { Update(k.ae, 0, k.plen, 0, 4000, sq, m, k.prefix, << >>) :
        k \in NodeKeys, sq \in Seqnos, m \in Metrics }

\* the datagrams of at most MaxTlvs TLVs drawn from T
Datagrams(T) == UNION { [1..n -> T] : n \in 0..MaxTlvs }

\* what recv_once can meet when the peers send TLVs drawn from T
RxOf(T) ==
    { [ kind |-> "WouldBlock" ], [ kind |-> "Err" ] }
    \cup { [ kind |-> "Ok", src |-> a, tlvs |-> d ] : a \in Addrs, d \in Datagrams(T) }

Init == \E cfg \in Configs : NodeInit(cfg)

\* a poll of the node whose sends all succeed, with recv_once meeting one of RX
PollStep(RX, horizon) ==
    \E rx \in RX, tp \in {now, now + 1}, order \in Orders(known_addrs(neighbors)) :
        /\ rx.kind # "WouldBlock" => count < MaxDgrams
        /\ tp <= horizon
        /\ Poll(rx, tp, order, NoFail)
        /\ UNCHANGED history

\* the node, with peers that announce routes
RouteTlvs == { Hello(0, 7, 0, << >>) } \cup RouterIdTlvs \cup NextHopTlvs \cup UpdateTlvs
RouteRx == RxOf(RouteTlvs)

Next ==
    \/ PollStep(RouteRx, MaxClock)
    \/ Tick(MaxClock)

Spec == Init /\ [][Next]_vars

\* the node without prefixes of its own, with peers that send Hello and IHU
NbrTlvs == HelloTlvs \cup IhuTlvs
NbrRx == RxOf(NbrTlvs)

InitNbr == NodeInit(BabelConfig(<< >>))

NextNbr ==
    \/ PollStep(NbrRx, MaxTime)
    \/ Tick(MaxTime)

SpecNbr == InitNbr /\ [][NextNbr]_vars

\* a poll that reaches its prune step: the receive step does not fail
PollPrune(RX, horizon) ==
    \E rx \in { r \in RX : r.kind # "Err" }, tp \in {now, now + 1},
       order \in Orders(known_addrs(neighbors)) :
        /\ rx.kind # "WouldBlock" => count < MaxDgrams
        /\ tp <= horizon
        /\ Poll(rx, tp, order, NoFail)
        /\ UNCHANGED history

\* the neighbor-tracking node when the caller keeps polling, the clock keeps advancing up to
\* the horizon and polls that do not fail in the receive step keep happening
\* the peers send datagrams of at most one TLV, a Hello or an IHU
LiveRx ==
    { [ kind |-> "WouldBlock" ], [ kind |-> "Err" ] }
    \cup { [ kind |-> "Ok", src |-> a, tlvs |-> d ] :
             a \in Addrs, d \in { << >> } \cup { << tlv >> : tlv \in NbrTlvs } }

NextLive ==
    \/ PollStep(LiveRx, MaxTime)
    \/ Tick(MaxTime)

SpecNbrLive ==
    /\ InitNbr
    /\ [][NextLive]_vars
    /\ WF_vars(Tick(MaxTime))
    /\ WF_vars(PollPrune(LiveRx, MaxTime))

\* the node with a caller that drains the event queue between polls; the history
\* variables record every event pushed and every event a drain returned
DrainTlvs == { Hello(0, 7, 0, << >>), RouterId(Rid(1), << >>) } \cup
             { Update(k.ae, 0, k.plen, 0, 4000, 1, m, k.prefix, << >>) : k \in NodeKeys, m \in Metrics }
DrainRx == RxOf(DrainTlvs)

PollTraced(RX, horizon) ==
    \E rx \in RX, tp \in {now, now + 1}, order \in Orders(known_addrs(neighbors)) :
        /\ rx.kind # "WouldBlock" => count < MaxDgrams
        /\ tp <= horizon
        /\ Poll(rx, tp, order, NoFail)
        /\ emitted' = emitted \o SubSeq(events', Len(events) + 1, Len(events'))
        /\ UNCHANGED drained

NextDrain ==
    \/ PollTraced(DrainRx, MaxClock)
    \/ Drain
    \/ Tick(MaxClock)

SpecDrain == Init /\ [][NextDrain]_vars

(***************************************************************************)
(* The node with peers that say Hello or IHU in either order, every event  *)
(* pushed being recorded.                                                  *)
(***************************************************************************)
NextOrphan ==
    \/ PollTraced(NbrRx, MaxClock)
    \/ Tick(MaxClock)

SpecOrphan == InitNbr /\ [][NextOrphan]_vars

\* the node with peers whose datagrams are a greeting that names the router-id and
\* a next-hop, a bare Update, a change of router-id and a NextHop without address;
\* every event pushed is recorded
ScratchDgrams ==
    LET upd == Update(1, 0, 24, 0, 4000, 1, 100, <<192, 0, 2>>, << >>)
    IN  { << Hello(0, 7, 0, << >>), RouterId(Rid(1), << >>), NextHop(1, Some(OtherIp), << >>) >>,
          << Hello(0, 7, 0, << >>), RouterId(Rid(1), << >>) >>,
          << upd >>,
          << RouterId(Rid(2), << >>), upd >>,
          << NextHop(1, None, << >>) >> }
ScratchRx ==
    { [ kind |-> "WouldBlock" ] }
    \cup { [ kind |-> "Ok", src |-> a, tlvs |-> d ] : a \in Addrs, d \in ScratchDgrams }

NextScratch ==
    \/ PollTraced(ScratchRx, MaxClock)
    \/ Tick(MaxClock)

SpecScratch == Init /\ [][NextScratch]_vars

\* the node with peers that announce routes under two router-ids, every event
\* pushed being recorded
BestTlvs == RouterIdTlvs \cup UpdateTlvs
BestRx == RxOf(BestTlvs)

NextBest ==
    \/ PollTraced(BestRx, MaxClock)
    \/ Drain
    \/ Tick(MaxClock)

SpecBest == Init /\ [][NextBest]_vars

(***************************************************************************)
(* The node fed with datagrams as bytes: recv_once decodes what arrives.   *)
(***************************************************************************)
WireTlvs ==
    { Hello(0, 7, 0, << >>), RouterId(Rid(1), << >>),
      Update(1, 0, 24, 0, 4000, 1, 100, <<192, 0, 2>>, << >>) }

\* bodies of well-formed TLVs
GoodBodies == { tlvs_bytes(d) : d \in Datagrams(WireTlvs) }

\* TLVs that are malformed where they stand at the end of a datagram: a Hello
\* whose declared length overruns the datagram, a Hello whose fixed fields overrun
\* its body, an Update whose prefix overruns its body
BadTlvs ==
    { << 4, 6, 0, 0 >>,
      << 4, 2, 0, 0 >>,
      << 8, 10, 1, 0, 24, 0 >> \o u16_bytes(4000) \o u16_bytes(1) \o u16_bytes(100) }

\* bodies in which a malformed TLV follows at most one well-formed TLV
MalformedBodies ==
    { tlvs_bytes(d) \o b : d \in { x \in Datagrams(WireTlvs) : Len(x) <= 1 }, b \in BadTlvs }

\* a body behind the packet header
WithHeader(body) == << 42, 2, Len(body) \div 256, Len(body) % 256 >> \o body
\* a body behind a header that announces one byte more than the datagram holds
Overrun(body) == << 42, 2, (Len(body) + 1) \div 256, (Len(body) + 1) % 256 >> \o body

\* datagrams whose header announces more than they hold
OverrunBufs == { Overrun(tlvs_bytes(d)) : d \in { x \in Datagrams(WireTlvs) : Len(x) <= 1 } }
\* datagrams that hold a malformed TLV
MalformedBufs == MalformedBodies \cup { WithHeader(b) : b \in MalformedBodies }

WireBufs ==
    GoodBodies \cup { WithHeader(b) : b \in GoodBodies } \cup MalformedBufs \cup OverrunBufs

\* a poll whose receive step meets the datagram buf sent by src
PollWire ==
    \E buf \in WireBufs, src \in Addrs, tp \in {now, now + 1},
       order \in Orders(known_addrs(neighbors)) :
        /\ count < MaxDgrams
        /\ tp <= MaxClock
        /\ Poll(recv_once(buf, src) @@ [ buf |-> buf ], tp, order, NoFail)
        /\ UNCHANGED history

\* a poll whose receive step finds nothing
PollIdle ==
    \E tp \in {now, now + 1}, order \in Orders(known_addrs(neighbors)) :
        /\ tp <= MaxClock
        /\ Poll([ kind |-> "WouldBlock" ], tp, order, NoFail)
        /\ UNCHANGED history

NextWire ==
    \/ PollWire
    \/ PollIdle
    \/ Tick(MaxClock)

SpecWire == InitNbr /\ [][NextWire]_vars

(***************************************************************************)
(* The node fed with encoded packets whose Updates omit leading prefix     *)
(* bytes.                                                                  *)
(***************************************************************************)
\* Updates for 192.0.2.0/24 with 0, 1, 3 or 4 leading bytes omitted
OmitUpdates ==
    { Update(1, 0, 24, om, 4000, 1, 100,
             SubSeq(<<192, 0, 2>>, om + 1, 3), << >>) : om \in {0, 1, 3, 4} }

OmitBufs ==
    { Packet_to_bytes(d) : d \in Datagrams({ RouterId(Rid(1), << >>) } \cup OmitUpdates) }

\* a poll whose receive step meets one of the datagrams BUFS
PollBytes(BUFS) ==
    \E buf \in BUFS, src \in Addrs, tp \in {now, now + 1},
       order \in Orders(known_addrs(neighbors)) :
        /\ count < MaxDgrams
        /\ tp <= MaxClock
        /\ Poll(recv_once(buf, src) @@ [ buf |-> buf ], tp, order, NoFail)
        /\ UNCHANGED history

NextOmit ==
    \/ PollBytes(OmitBufs)
    \/ PollIdle
    \/ Tick(MaxClock)

SpecOmit == Init /\ [][NextOmit]_vars

(***************************************************************************)
(* The node's timers: short intervals, two advertised prefixes, sends that *)
(* may fail, peers that only say Hello.                                    *)
(***************************************************************************)
\* BabelConfig with the intervals and prefixes given
TimerConfig(prefixes) ==
    [ hello_interval_ms |-> 1, ihu_interval_ms |-> 0, update_interval_ms |-> 1,
      advertised_prefixes |-> prefixes ]

\* prefix lists: none, two prefixes
SendPrefixLists ==
    { << >>,
      << AdvertisedPrefix(1, 24, <<192, 0, 2>>, 100), AdvertisedPrefix(1, 8, <<10>>, 200) >> }

\* prefix lists: none, two prefixes, the same prefix twice with the same metric,
\* with a worse and with a better metric the second time
PrefixLists ==
    SendPrefixLists \cup
    {
      << AdvertisedPrefix(1, 24, <<192, 0, 2>>, 100), AdvertisedPrefix(1, 24, <<192, 0, 2>>, 100) >>,
      << AdvertisedPrefix(1, 24, <<192, 0, 2>>, 100), AdvertisedPrefix(1, 24, <<192, 0, 2>>, 200) >>,
      << AdvertisedPrefix(1, 24, <<192, 0, 2>>, 200), AdvertisedPrefix(1, 24, <<192, 0, 2>>, 100) >> }

\* a node just constructed, or one that has run until its seqno is about to wrap
\* and whose Hello and Update timers fired at time 0
InitSend ==
    \E prefixes \in SendPrefixLists :
        \/ NodeInit(TimerConfig(prefixes))
        \/ LET st == install_local_advertised_routes(
                         [ routes |-> << >>, neighbors |-> NeighborTable_new,
                           source_info |-> [ a \in Addrs |-> None ], events |-> << >> ],
                         prefixes, InitialSeqno, 1)
           IN  /\ config = TimerConfig(prefixes)
               /\ seqno = U16 - 1
               /\ last_hello = Some(0)
               /\ last_ihu = None
               /\ last_update_advert = IF prefixes = << >> THEN None ELSE Some(0)
               /\ routes = st.routes
               /\ neighbors = st.neighbors
               /\ source_info = st.source_info
               /\ events = << >>
               /\ emitted = st.events
               /\ drained = st.events
               /\ now = 0
               /\ count = 0
               /\ last = [ op |-> "running" ]

\* which sends of a poll fail: the Hello, the IHU to one neighbor, the Update for
\* one prefix
Fails ==
    { [ hello |-> h, ihu |-> i, update |-> u ] :
        h \in BOOLEAN, i \in { {} } \cup { {a} : a \in Addrs }, u \in { {}, {1}, {2} } }

SendRx ==
    { [ kind |-> "WouldBlock" ], [ kind |-> "Err" ] }
    \cup { [ kind |-> "Ok", src |-> a, tlvs |-> << Hello(0, 7, 3, << >>) >> ] : a \in Addrs }

PollSend ==
    \E rx \in SendRx, fail \in Fails, tp \in {now, now + 1},
       order \in Orders(known_addrs(neighbors)) :
        /\ rx.kind # "WouldBlock" => count < MaxDgrams
        /\ tp <= MaxClock
        /\ Poll(rx, tp, order, fail)
        /\ UNCHANGED history

NextSend ==
    \/ PollSend
    \/ Tick(MaxClock)

SpecSend == InitSend /\ [][NextSend]_vars

(***************************************************************************)
(* The node's timers with peers whose Hellos announce interval 0, so that  *)
(* the prune step of a later poll removes them.                            *)
(***************************************************************************)
WorkRx ==
    { [ kind |-> "WouldBlock" ], [ kind |-> "Err" ] }
    \cup { [ kind |-> "Ok", src |-> a, tlvs |-> d ] :
             a \in Addrs,
             d \in { << Hello(0, 7, 0, << >>) >>,
                     << Hello(0, 7, 0, << >>), Hello(0, 8, 0, << >>) >> } }

PollWork ==
    \E rx \in WorkRx, fail \in Fails, tp \in {now, now + 1},
       order \in Orders(known_addrs(neighbors)) :
        /\ rx.kind # "WouldBlock" => count < MaxDgrams
        /\ tp <= MaxClock
        /\ Poll(rx, tp, order, fail)
        /\ UNCHANGED history

NextWork ==
    \/ PollWork
    \/ Tick(MaxClock)

SpecWork == InitSend /\ [][NextWork]_vars

(***************************************************************************)
(* The IHU timer: interval 1, no prefixes, IHU sends that may fail, peers  *)
(* that say Hello or IHU.                                                  *)
(***************************************************************************)
IhuConfig ==
    [ hello_interval_ms |-> 1, ihu_interval_ms |-> 1, update_interval_ms |-> 1,
      advertised_prefixes |-> << >> ]

InitIhu == NodeInit(IhuConfig)

IhuFails == { [ hello |-> FALSE, ihu |-> i, update |-> {} ] : i \in { {} } \cup { {a} : a \in Addrs } }

IhuRx ==
    { [ kind |-> "WouldBlock" ] }
    \cup { [ kind |-> "Ok", src |-> a, tlvs |-> << tlv >> ] :
             a \in Addrs, tlv \in { Hello(0, 7, 3, << >>), Ihu(0, 96, 4000, None, << >>) } }

PollIhu ==
    \E rx \in IhuRx, fail \in IhuFails, tp \in {now, now + 1},
       order \in Orders(known_addrs(neighbors)) :
        /\ rx.kind # "WouldBlock" => count < MaxDgrams
        /\ tp <= MaxClock
        /\ Poll(rx, tp, order, fail)
        /\ UNCHANGED history

NextIhu ==
    \/ PollIhu
    \/ Tick(MaxClock)

SpecIhu == InitIhu /\ [][NextIhu]_vars

(***************************************************************************)
(* Construction from every prefix list, then peers that announce routes.   *)
(***************************************************************************)
InitBoot == \E prefixes \in PrefixLists : NodeInit(BabelConfig(prefixes))

BootTlvs == { RouterId(Rid(1), << >>) } \cup
            { Update(k.ae, 0, k.plen, 0, 4000, 1, 100, k.prefix, << >>) : k \in Keys }
BootRx == RxOf(BootTlvs)

NextBoot ==
    \/ PollStep(BootRx, MaxClock)
    \/ Tick(MaxClock)

SpecBoot == InitBoot /\ [][NextBoot]_vars

(***************************************************************************)
(* Construction from every prefix list, then peers that announce the       *)
(* node's own prefix under the node's own router-id, with better and worse *)
(* metrics, while the timers advance the node's seqno.                     *)
(***************************************************************************)
InitLocal == \E prefixes \in PrefixLists : NodeInit(TimerConfig(prefixes))

LocalTlvs ==
    { RouterId(OwnRouterId, << >>), NextHop(1, None, << >>) }
    \cup { Update(k.ae, 0, k.plen, 0, 4000, 65535, m, k.prefix, << >>) :
             k \in NodeKeys, m \in {50, 65535} }
LocalRx == RxOf(LocalTlvs)

NextLocal ==
    \/ PollStep(LocalRx, MaxClock)
    \/ Tick(MaxClock)

SpecLocal == InitLocal /\ [][NextLocal]_vars

(***************************************************************************)
(* The codec on its own: a TLV value or a byte buffer is drawn, then       *)
(* to_bytes, parse, parse_all and from_bytes are applied to it.            *)
(***************************************************************************)
\* sub-TLV lists: empty, paddings, unknown sub-TLVs, a sub-TLV Unknown that carries
\* the stype of Pad1 or of PadN, and one that is LongData bytes long
LongData == 250
SubLists ==
    { << >>, << SubPad1 >>, << SubPadN(2) >>, << SubUnknown(2, << 9 >>) >>,
      << SubPad1, SubUnknown(128, << >>) >>,
      << SubUnknown(1, << 5 >>) >>, << SubUnknown(0, << >>) >>,
      << SubUnknown(2, zeros(LongData)) >> }

V4 == << 10, 0, 0, 1 >>
V6 == [ i \in 1..16 |-> IF i = 1 THEN 254 ELSE IF i = 2 THEN 128 ELSE i ]

\* TLV values of every variant: those whose fields agree with one another, and
\* those the type also admits (an address encoding without its address, a prefix
\* shorter than plen says, an Unknown with a defined type)
TlvValues ==
    { Pad1, PadN(0), PadN(3),
      Unknown(11, << 1, 2 >>), Unknown(255, << >>), Unknown(4, << >>) }
    \cup { AckRequest(1, 2, s) : s \in SubLists }
    \cup { Ack(513, s) : s \in SubLists }
    \cup { Hello(0, 7, 400, s) : s \in SubLists }
    \cup { Ihu(1, 256, 4000, Some(V4), s) : s \in SubLists }
    \cup { Ihu(2, 256, 4000, Some(V6), s) : s \in SubLists }
    \cup { Ihu(0, 256, 4000, None, s) : s \in SubLists }
    \cup { Ihu(1, 256, 4000, None, s) : s \in SubLists }
    \cup { RouterId(Rid(1), s) : s \in SubLists }
    \cup { NextHop(1, Some(V4), s) : s \in SubLists }
    \cup { NextHop(0, None, s) : s \in SubLists }
    \cup { NextHop(0, Some(V4), s) : s \in SubLists }
    \cup { Update(1, 0, 24, 0, 500, 10, 256, << 192, 0, 2 >>, s) : s \in SubLists }
    \cup { Update(1, 0, 24, 1, 500, 10, 256, << 0, 2 >>, s) : s \in SubLists }
    \cup { Update(1, 0, 24, 0, 500, 10, 256, << 192 >>, s) : s \in SubLists }
    \cup { RouteRequest(1, 24, << 192, 0, 2 >>, s) : s \in SubLists }
    \cup { SeqnoRequest(1, 8, 65535, 3, Rid(2), << 10 >>, s) : s \in SubLists }

\* buffers that hold one TLV of a type beyond 10: type, length, that many bytes
UnknownBufs ==
    { << ty, Len(b) >> \o b :
        ty \in {11, 128, 255},
        b \in { << >>, << 0 >>, << 1, 2 >>, << 4, 6, 0, 0, 0, 7, 0, 0 >>, zeros(255) } }

\* bodies of well-formed TLVs with a Pad1 or a PadN among them
PaddedBodies ==
    { << 0 >>, << 1, 2, 0, 0 >>, << 0 >> \o tlvs_bytes(<< Hello(0, 7, 0, << >>) >>) \o << 0 >> }

\* packets: a body behind its header, with trailing bytes behind the window, a
\* header that announces too much, buffers without magic or version, buffers too
\* short for a header
Bodies == GoodBodies \cup PaddedBodies \cup MalformedBodies
Trailers == { << >>, << 0 >>, << 4, 6, 0, 0, 0, 9, 0, 0 >>, << 4, 6 >> }
PacketBufs ==
    { WithHeader(b) \o tr : b \in Bodies, tr \in Trailers }
    \cup OverrunBufs
    \cup { << 42, 2, 1, 0 >> \o b : b \in GoodBodies }
    \cup { << 42, 3, 0, 0 >> \o b : b \in GoodBodies }
    \cup { << 41, 2, 0, 0 >> \o b : b \in GoodBodies }
    \cup { << 42 >>, << 42, 2 >>, << 42, 2, 0 >>, << 42, 2, 0, 0 >> }

CodecBufs == UnknownBufs \cup Bodies \cup PacketBufs

InitCodec ==
    /\ routes = << >>
    /\ neighbors = NeighborTable_new
    /\ source_info = [ a \in Addrs |-> None ]
    /\ events = << >>
    /\ seqno = InitialSeqno
    /\ last_hello = None
    /\ last_ihu = None
    /\ last_update_advert = None
    /\ config = BabelConfig(<< >>)
    /\ now = 0
    /\ count = 0
    /\ emitted = << >>
    /\ drained = << >>
    /\ last \in { [ op |-> "tlv", tlv |-> t ] : t \in TlvValues }
                \cup { [ op |-> "bytes", buf |-> b ] : b \in CodecBufs }

codecRest ==
    << routes, neighbors, source_info, events, nodeTimers, now, count, history >>

\* Tlv::to_bytes on the value drawn
TlvToBytes ==
    /\ last.op = "tlv"
    /\ last' = [ op |-> "to_bytes", tlv |-> last.tlv, bytes |-> Tlv_to_bytes(last.tlv) ]
    /\ UNCHANGED codecRest

\* Tlv::parse on a cursor at the start of the bytes an encoding gave
TlvParseEncoded ==
    /\ last.op = "to_bytes"
    /\ last' = [ op |-> "parse_encoded", tlv |-> last.tlv, buf |-> last.bytes,
                 ret |-> parse(last.bytes, 0) ]
    /\ UNCHANGED codecRest

\* Tlv::parse on a cursor at the start of the buffer drawn
TlvParse ==
    /\ last.op = "bytes"
    /\ last' = [ op |-> "parse", buf |-> last.buf, ret |-> parse(last.buf, 0) ]
    /\ UNCHANGED codecRest

\* Tlv::to_bytes on the value a parse gave
TlvReencode ==
    /\ last.op = "parse"
    /\ last.ret.ok
    /\ last' = [ op |-> "reencode", buf |-> last.buf, tlv |-> last.ret.val,
                 bytes |-> Tlv_to_bytes(last.ret.val) ]
    /\ UNCHANGED codecRest

\* Tlv::parse_all on the buffer drawn
TlvParseAll ==
    /\ last.op = "bytes"
    /\ last' = [ op |-> "parse_all", buf |-> last.buf, all |-> parse_all(last.buf) ]
    /\ UNCHANGED codecRest

\* Packet::from_bytes on the buffer drawn
PacketFromBytes ==
    /\ last.op = "bytes"
    /\ last' = [ op |-> "from_bytes", buf |-> last.buf, pkt |-> from_bytes(last.buf) ]
    /\ UNCHANGED codecRest

NextCodec ==
    \/ TlvToBytes
    \/ TlvParseEncoded
    \/ TlvParse
    \/ TlvReencode
    \/ TlvParseAll
    \/ PacketFromBytes

SpecCodec == InitCodec /\ [][NextCodec]_vars

(***************************************************************************)
(* The routing table on its own: install_or_update and remove_by_router    *)
(* from an empty table.                                                    *)
(***************************************************************************)
RouteInputs ==
    { Route(k, m, sq, rid, nh, OwnIface) :
        k \in Keys, m \in Metrics, sq \in Seqnos, rid \in RemoteRouterIds,
        nh \in { None, Some(OtherIp) } }

\* a table or a node that nothing has touched yet
Untouched ==
    /\ routes = << >>
    /\ neighbors = NeighborTable_new
    /\ source_info = [ a \in Addrs |-> None ]
    /\ events = << >>
    /\ seqno = InitialSeqno
    /\ last_hello = None
    /\ last_ihu = None
    /\ last_update_advert = None
    /\ config = BabelConfig(<< >>)
    /\ now = 0
    /\ count = 0
    /\ emitted = << >>
    /\ drained = << >>
    /\ last = [ op |-> "new" ]

RtInstall(r) ==
    LET res == install_or_update(routes, r)
    IN  /\ Len(res.routes) <= MaxRoutes
        /\ routes' = res.routes
        /\ last' = [ op |-> "install_or_update", arg |-> r, ret |-> res.changed ]
        /\ UNCHANGED << neighbors, source_info, events, nodeTimers, now, count, history >>

RtRemove(router_id) ==
    LET res == remove_by_router(routes, router_id)
    IN  /\ routes' = res.routes
        /\ last' = [ op |-> "remove_by_router", arg |-> router_id, ret |-> res.removed ]
        /\ UNCHANGED << neighbors, source_info, events, nodeTimers, now, count, history >>

NextRoutes ==
    \/ \E r \in RouteInputs : RtInstall(r)
    \/ \E rid \in RemoteRouterIds : RtRemove(rid)

SpecRoutes == Untouched /\ [][NextRoutes]_vars

(***************************************************************************)
(* The neighbor table on its own: MaxOps table operations, with the clock  *)
(* advancing between them.                                                 *)
(***************************************************************************)
Ifaces == {1, 2}
Costs == {96, 256}
Multipliers == {1, 3}

tableRest == << routes, source_info, events, nodeTimers, now, history >>

NtHello(src, iface_index, sq, interval_ms) ==
    /\ count < MaxOps
    /\ count' = count + 1
    /\ neighbors' = update_on_hello(neighbors, src, iface_index, sq, interval_ms, now)
    /\ last' = [ op |-> "update_on_hello",
                 arg |-> << src, iface_index, sq, interval_ms >> ]
    /\ UNCHANGED tableRest

NtIhu(src, iface_index, rxcost, interval_ms) ==
    /\ count < MaxOps
    /\ count' = count + 1
    /\ neighbors' = update_on_ihu(neighbors, src, iface_index, rxcost, interval_ms, now)
    /\ last' = [ op |-> "update_on_ihu",
                 arg |-> << src, iface_index, rxcost, interval_ms >> ]
    /\ UNCHANGED tableRest

NtSetTxcost(addr, iface_index, txcost) ==
    /\ count < MaxOps
    /\ count' = count + 1
    /\ neighbors' = table_set_txcost(neighbors, addr, iface_index, txcost)
    /\ last' = [ op |-> "set_txcost", arg |-> << addr, iface_index, txcost >> ]
    /\ UNCHANGED tableRest

NtPrune(multiplier) ==
    LET res == prune_stale(neighbors, now, multiplier)
    IN  /\ count < MaxOps
        /\ count' = count + 1
        /\ neighbors' = res.neighbors
        /\ last' = [ op |-> "prune_stale", arg |-> multiplier, ret |-> res.removed ]
        /\ UNCHANGED tableRest

NtPruneWithAddrs(multiplier) ==
    LET res == prune_stale_with_addrs(neighbors, now, multiplier)
    IN  /\ count < MaxOps
        /\ count' = count + 1
        /\ neighbors' = res.neighbors
        /\ \E removed \in res.removed :
              last' = [ op |-> "prune_stale_with_addrs", arg |-> multiplier,
                        ret |-> removed ]
        /\ UNCHANGED tableRest

NextNeighbors ==
    \/ \E a \in Addrs, f \in Ifaces, sq \in Seqnos, iv \in HelloIntervals :
          NtHello(a, f, sq, iv)
    \/ \E a \in Addrs, f \in Ifaces, c \in Costs : NtIhu(a, f, c, 4000)
    \/ \E a \in Addrs, f \in Ifaces, c \in Costs : NtSetTxcost(a, f, c)
    \/ \E m \in Multipliers : NtPrune(m)
    \/ \E m \in Multipliers : NtPruneWithAddrs(m)
    \/ Tick(MaxTime)

SpecNeighbors == Untouched /\ [][NextNeighbors]_vars

(***************************************************************************)
(* The neighbor table after many Hellos: tables whose records have heard   *)
(* fifteen or sixteen Hellos, then MaxOps table operations.                *)
(***************************************************************************)
HelloCounts == {15, 16}

\* the record n after j more Hellos (seqno 1, interval 1, at time 0)
RECURSIVE HeardTimes(_, _)
HeardTimes(n, j) == IF j = 0 THEN n ELSE HeardTimes(note_hello(n, 1, 1, 0), j - 1)

InitHello ==
    /\ routes = << >>
    /\ \E j \in [ Addrs -> {0} \cup HelloCounts ] :
          neighbors = [ a \in Addrs |->
                          IF j[a] = 0 THEN None
                          ELSE Some(HeardTimes(Neighbor_new(a, OwnIface), j[a])) ]
    /\ source_info = [ a \in Addrs |-> None ]
    /\ events = << >>
    /\ seqno = InitialSeqno
    /\ last_hello = None
    /\ last_ihu = None
    /\ last_update_advert = None
    /\ config = BabelConfig(<< >>)
    /\ now = 0
    /\ count = 0
    /\ emitted = << >>
    /\ drained = << >>
    /\ last = [ op |-> "new" ]

NextHello ==
    \/ \E a \in Addrs, f \in Ifaces, sq \in Seqnos, iv \in HelloIntervals :
          NtHello(a, f, sq, iv)
    \/ \E a \in Addrs, f \in Ifaces : NtIhu(a, f, 96, 4000)
    \/ \E a \in Addrs, f \in Ifaces : NtSetTxcost(a, f, 96)
    \/ Tick(MaxClock)

SpecHello == InitHello /\ [][NextHello]_vars

(***************************************************************************)
(* The neighbor table over a long run: any number of Hellos and IHUs, the  *)
(* clock advancing, and the prune the node runs in every poll.             *)
(***************************************************************************)
HsHello(src) ==
    /\ neighbors' = update_on_hello(neighbors, src, OwnIface, 1, 0, now)
    /\ last' = [ op |-> "update_on_hello", arg |-> << src, OwnIface, 1, 0 >> ]
    /\ UNCHANGED << tableRest, count >>

HsIhu(src) ==
    /\ neighbors' = update_on_ihu(neighbors, src, OwnIface, 96, 4000, now)
    /\ last' = [ op |-> "update_on_ihu", arg |-> << src, OwnIface, 96, 4000 >> ]
    /\ UNCHANGED << tableRest, count >>

HsPrune ==
    LET res == prune_stale(neighbors, now, PruneMultiplier)
    IN  /\ neighbors' = res.neighbors
        /\ last' = [ op |-> "prune_stale", arg |-> PruneMultiplier, ret |-> res.removed ]
        /\ UNCHANGED << tableRest, count >>

NextHistory ==
    \/ \E a \in Addrs : HsHello(a)
    \/ \E a \in Addrs : HsIhu(a)
    \/ HsPrune
    \/ Tick(MaxClock)

SpecHistory == Untouched /\ [][NextHistory]_vars

(***************************************************************************)
(* One neighbor record on its own: its public fields hello_history, rxcost *)
(* and txcost hold any value of their type; note_hello, link_cost and      *)
(* is_reachable are applied to it.                                         *)
(***************************************************************************)
\* the largest window, u8::MAX
MaxWindow == 255
Windows == 0..MaxWindow
\* Hello histories: none, the last Hello only, one earlier Hello only (bits 1, 2,
\* 8 and 15), all sixteen
Histories == { 0, 1, 2, 4, 256, 32768, 65535 }
OptCosts == { None } \cup { Some(c) : c \in Costs }

RecAddr == CHOOSE a \in Addrs : TRUE
\* the record
Rec == Unwrap(neighbors[RecAddr])

InitRecord ==
    /\ routes = << >>
    /\ \E h \in Histories, rx \in OptCosts, tx \in OptCosts :
          neighbors = [ a \in Addrs |->
                          IF a = RecAddr
                          THEN Some([ Neighbor_new(a, OwnIface) EXCEPT
                                        !.hello_history = h, !.rxcost = rx, !.txcost = tx ])
                          ELSE None ]
    /\ source_info = [ a \in Addrs |-> None ]
    /\ events = << >>
    /\ seqno = InitialSeqno
    /\ last_hello = None
    /\ last_ihu = None
    /\ last_update_advert = None
    /\ config = BabelConfig(<< >>)
    /\ now = 0
    /\ count = 0
    /\ emitted = << >>
    /\ drained = << >>
    /\ last = [ op |-> "new" ]

\* Neighbor::note_hello on the record
RecNoteHello ==
    /\ count < MaxOps
    /\ count' = count + 1
    /\ neighbors' = [ neighbors EXCEPT ![RecAddr] = Some(note_hello(Rec, 1, 4000, now)) ]
    /\ last' = [ op |-> "note_hello" ]
    /\ UNCHANGED tableRest

\* Neighbor::link_cost on the record
RecLinkCost ==
    /\ last' = [ op |-> "link_cost", ret |-> link_cost(Rec) ]
    /\ UNCHANGED << neighbors, count >>
    /\ UNCHANGED tableRest

\* Neighbor::is_reachable on the record
RecIsReachable(window) ==
    /\ last' = [ op |-> "is_reachable", window |-> window, ret |-> is_reachable(Rec, window) ]
    /\ UNCHANGED << neighbors, count >>
    /\ UNCHANGED tableRest

NextRecord ==
    \/ RecNoteHello
    \/ RecLinkCost
    \/ \E window \in Windows : RecIsReachable(window)

SpecRecord == InitRecord /\ [][NextRecord]_vars

(***************************************************************************)
(* The claims.                                                             *)
(***************************************************************************)
\* the identifying tuple of a route
IdTuple(r) == << r.key, r.router_id, r.next_hop, r.iface_index >>

\* the entries of a table with the key
EntriesFor(rs, key) == { rs[i] : i \in { j \in 1..Len(rs) : rs[j].key = key } }

\* C1: after any sequence of install_or_update and remove_by_router calls from
\* an empty table, no two entries share the identifying tuple
\* (key, router_id, next_hop, iface_index).
C1_UniqueTuples ==
    \A i, j \in 1..Len(routes) : i # j => IdTuple(routes[i]) # IdTuple(routes[j])

\* an install met an entry with its tuple beside another entry with the same key
C1_Witness ==
    /\ last.op = "install_or_update"
    /\ Len(routes) = 2
    /\ routes[1].key = routes[2].key
    /\ IdTuple(routes[1]) = IdTuple(last.arg)
    /\ last.ret = TRUE

\* C2: best_route(key) is None iff no entry has the key; otherwise it is an entry
\* with the key, of minimum metric among them and of maximum seqno (as a plain
\* unsigned number) among those of minimum metric.
C2_BestRoute ==
    \A k \in Keys :
        LET S == EntriesFor(routes, k)
            b == best_route(routes, k)
        IN  /\ (b = None) <=> (S = {})
            /\ b # None =>
                  /\ Unwrap(b) \in S
                  /\ \A r \in S : Unwrap(b).metric <= r.metric
                  /\ \A r \in S : r.metric = Unwrap(b).metric => r.seqno <= Unwrap(b).seqno

\* two entries of one key tie on the metric and the earlier one, of higher seqno, wins
C2_Witness ==
    /\ Len(routes) = 2
    /\ routes[1].key = routes[2].key
    /\ routes[1].metric = routes[2].metric
    /\ routes[1].seqno > routes[2].seqno
    /\ best_route(routes, routes[1].key) = Some(routes[1])

\* C3: install_or_update returns true exactly when no entry has the route's tuple
\* (the route is appended) or the entry that has it is strictly worse (higher
\* metric, or equal metric and lower seqno; it is replaced in place); otherwise it
\* returns false and the table is unchanged.
C3_InstallResult ==
    [][ last'.op = "install_or_update" =>
          LET new == last'.arg
              M == { i \in 1..Len(routes) : IdTuple(routes[i]) = IdTuple(new) }
          IN  IF M = {}
              THEN last'.ret = TRUE /\ routes' = Append(routes, new)
              ELSE \A i \in M :
                     IF \/ new.metric < routes[i].metric
                        \/ new.metric = routes[i].metric /\ new.seqno > routes[i].seqno
                     THEN last'.ret = TRUE /\ routes' = [ routes EXCEPT ![i] = new ]
                     ELSE last'.ret = FALSE /\ routes' = routes
      ]_vars

\* an install replaced an entry in place, ahead of another entry
C3_Witness ==
    /\ last.op = "install_or_update"
    /\ last.ret = TRUE
    /\ Len(routes) = 2
    /\ routes[1] = last.arg

\* C10: prune_stale(now, multiplier) removes exactly the neighbors that have a
\* last-Hello time with now - last_hello > hello_interval_ms * multiplier;
\* neighbors that never received a Hello stay; the surviving records are unchanged
\* and the result reports exactly the removed neighbors.
C10_Expired(tbl, t, multiplier) ==
    { a \in Addrs :
        /\ IsSome(tbl[a])
        /\ IsSome(Unwrap(tbl[a]).last_hello_rx)
        /\ t - Unwrap(Unwrap(tbl[a]).last_hello_rx)
             > Unwrap(Unwrap(tbl[a]).hello_interval_ms) * multiplier }

C10_PruneStale ==
    [][ last'.op \in { "prune_stale", "prune_stale_with_addrs" } =>
          LET R == C10_Expired(neighbors, now, last'.arg)
          IN  /\ neighbors' = [ a \in Addrs |-> IF a \in R THEN None ELSE neighbors[a] ]
              /\ last'.op = "prune_stale" => last'.ret = Cardinality(R)
              /\ last'.op = "prune_stale_with_addrs" =>
                    /\ Len(last'.ret) = Cardinality(R)
                    /\ { last'.ret[i] : i \in 1..Len(last'.ret) } = R
      ]_vars

\* a prune removed a silent neighbor and kept one that never sent a Hello
C10_Witness ==
    /\ last.op = "prune_stale"
    /\ last.ret = 1
    /\ \E a \in Addrs :
          /\ IsSome(neighbors[a])
          /\ Unwrap(neighbors[a]).last_hello_rx = None

\* the part of the node that TLV dispatch touches, before the step
Pre ==
    [ routes |-> routes, neighbors |-> neighbors, source_info |-> source_info,
      events |-> events ]

\* that part after the first i TLVs of the datagram rx were dispatched
After(rx, i) == handle_tlvs_from(Pre, rx.src, SubSeq(rx.tlvs, 1, i), now, 1)

\* the events b holds beyond those of a
Appended(a, b) == SubSeq(b.events, Len(a.events) + 1, Len(b.events))

\* the step is a poll that dispatched a datagram
DispatchStep == last'.op = "poll" /\ last'.rx.kind = "Ok"

\* the poll's result is the dispatch of all TLVs, then the prune step's events
DispatchedAll ==
    LET rx == last'.rx
        fin == After(rx, Len(rx.tlvs))
    IN  /\ routes' = fin.routes
        /\ source_info' = fin.source_info
        /\ events' = fin.events \o down_events(last'.removed, 1)

C4_Differs(old, best) ==
    \/ old.metric # best.metric
    \/ old.seqno # best.seqno
    \/ old.router_id # best.router_id
    \/ old.next_hop # best.next_hop

\* C4: dispatching an Update from a source whose router-id is recorded: if
\* install_or_update returns true, exactly one RouteUpdated(key, current best) is
\* appended, immediately followed by one BestRouteChanged(key, current best) iff
\* the key had no best route before or the previous best differs from the new one
\* in metric, seqno, router_id or next_hop; if it returns false, no event is
\* appended.
C4_UpdateEvents ==
    [][ DispatchStep =>
          /\ DispatchedAll
          /\ \A i \in 1..Len(last'.rx.tlvs) :
                LET rx == last'.rx
                    tlv == rx.tlvs[i]
                    pre == After(rx, i - 1)
                    post == After(rx, i)
                    si == pre.source_info[rx.src]
                IN  (tlv.type = "Update" /\ IsSome(si) /\ IsSome(Unwrap(si).router_id)) =>
                    LET key == [ ae |-> tlv.ae, plen |-> tlv.plen, prefix |-> tlv.prefix ]
                        route == Route(key, tlv.metric, tlv.seqno,
                                       Unwrap(Unwrap(si).router_id),
                                       IF IsSome(Unwrap(si).next_hop)
                                       THEN Unwrap(si).next_hop ELSE Some(ip(rx.src)),
                                       OwnIface)
                        res == install_or_update(pre.routes, route)
                        old == best_route(pre.routes, key)
                        best == best_route(post.routes, key)
                    IN  /\ post.routes = res.routes
                        /\ SubSeq(post.events, 1, Len(pre.events)) = pre.events
                        /\ IF res.changed
                           THEN /\ IsSome(best)
                                /\ Appended(pre, post) =
                                     << RouteUpdated(key, Unwrap(best)) >> \o
                                     ( IF old = None \/ C4_Differs(Unwrap(old), Unwrap(best))
                                       THEN << BestRouteChanged(key, Unwrap(best)) >>
                                       ELSE << >> )
                           ELSE Appended(pre, post) = << >>
      ]_vars

\* an Update was installed without changing the best route: RouteUpdated alone
C4_Witness ==
    /\ last.op = "poll"
    /\ last.rx.kind = "Ok"
    /\ Len(last.rx.tlvs) = 1
    /\ last.rx.tlvs[1].type = "Update"
    /\ last.removed = << >>
    /\ Len(events) >= 3
    /\ events[Len(events)].type = "RouteUpdated"
    /\ events[Len(events)].route.router_id = OwnRouterId

\* C5: dispatching, from a source with no neighbor record, a Hello followed by an
\* Update for a prefix with no route, with a RouterId TLV of that source processed
\* before the Update, appends exactly NeighborUp, RouteUpdated, BestRouteChanged,
\* in that order.
C5_Case(rx) ==
    LET tlvs == rx.tlvs
        H == { i \in 1..Len(tlvs) : tlvs[i].type = "Hello" }
        U == { i \in 1..Len(tlvs) : tlvs[i].type = "Update" }
    IN  /\ neighbors[rx.src] = None
        /\ Cardinality(H) = 1
        /\ Cardinality(U) = 1
        /\ \A i \in (1..Len(tlvs)) \ (H \cup U) : tlvs[i].type \in { "RouterId", "NextHop" }
        /\ \A h \in H, u \in U :
              /\ h < u
              /\ \/ IsSome(source_info[rx.src]) /\ IsSome(Unwrap(source_info[rx.src]).router_id)
                 \/ \E j \in 1..(u - 1) : tlvs[j].type = "RouterId"
              /\ EntriesFor(routes, [ ae |-> tlvs[u].ae, plen |-> tlvs[u].plen,
                                      prefix |-> tlvs[u].prefix ]) = {}

C5_HelloThenUpdate ==
    [][ (DispatchStep /\ C5_Case(last'.rx)) =>
          LET rx == last'.rx
              u == CHOOSE i \in 1..Len(rx.tlvs) : rx.tlvs[i].type = "Update"
              key == [ ae |-> rx.tlvs[u].ae, plen |-> rx.tlvs[u].plen,
                       prefix |-> rx.tlvs[u].prefix ]
              new == SubSeq(events', Len(events) + 1, Len(events') - Len(last'.removed))
          IN  /\ SubSeq(events', 1, Len(events)) = events
              /\ Len(new) = 3
              /\ new[1].type = "NeighborUp" /\ new[1].addr = rx.src
              /\ new[2].type = "RouteUpdated" /\ new[2].key = key
              /\ new[2].route.metric = rx.tlvs[u].metric
              /\ new[2].route.seqno = rx.tlvs[u].seqno
              /\ new[3] = BestRouteChanged(key, new[2].route)
      ]_vars

\* a datagram <<Hello, Update>> from a new peer with a known router-id gave the
\* three events
C5_Witness ==
    /\ last.op = "poll"
    /\ last.rx.kind = "Ok"
    /\ Len(last.rx.tlvs) = 2
    /\ last.rx.tlvs[1].type = "Hello"
    /\ last.rx.tlvs[2].type = "Update"
    /\ last.removed = << >>
    /\ Len(events) = 3
    /\ events[1].type = "NeighborUp"
    /\ events[2].type = "RouteUpdated"
    /\ events[3].type = "BestRouteChanged"

\* C6: each emitted event is returned by exactly one drain_events call, the
\* concatenation of all drain results lists the events in the order they were
\* generated, and a drain made immediately after another returns an empty list
\* (after a drain the queue is empty).
C6_DrainFifo ==
    /\ emitted = drained \o events
    /\ last.op = "drain_events" => events = << >>

\* a drain returned events, after an earlier drain had returned others
C6_Witness ==
    /\ last.op = "drain_events"
    /\ Len(last.ret) >= 2
    /\ Len(drained) > Len(last.ret)

\* C7: dispatching a Hello from source s appends NeighborUp(s, snapshot) exactly
\* when the neighbor table held no record for s immediately before that Hello; the
\* snapshot is the record after the Hello was applied; a Hello from a known source
\* appends no event.
C7_NeighborUp ==
    [][ DispatchStep =>
          /\ DispatchedAll
          /\ \A i \in 1..Len(last'.rx.tlvs) :
                LET rx == last'.rx
                    tlv == rx.tlvs[i]
                    pre == After(rx, i - 1)
                    post == After(rx, i)
                IN  tlv.type = "Hello" =>
                    /\ IsSome(post.neighbors[rx.src])
                    /\ Unwrap(post.neighbors[rx.src]).last_hello_seqno = Some(tlv.seqno)
                    /\ Unwrap(post.neighbors[rx.src]).hello_interval_ms = Some(tlv.interval)
                    /\ Unwrap(post.neighbors[rx.src]).last_hello_rx = Some(now)
                    /\ SubSeq(post.events, 1, Len(pre.events)) = pre.events
                    /\ Appended(pre, post) =
                         IF pre.neighbors[rx.src] = None
                         THEN << NeighborUp(rx.src, Unwrap(post.neighbors[rx.src])) >>
                         ELSE << >>
      ]_vars

\* two Hellos in one datagram from a new peer: one NeighborUp, with the record as
\* it was after the first Hello
C7_Witness ==
    /\ last.op = "poll"
    /\ last.rx.kind = "Ok"
    /\ Len(last.rx.tlvs) = 2
    /\ last.rx.tlvs[1].type = "Hello"
    /\ last.rx.tlvs[2].type = "Hello"
    /\ IsSome(neighbors[last.rx.src])
    /\ Unwrap(neighbors[last.rx.src]).hello_history = 3
    /\ Len(events) = 1
    /\ events[1].type = "NeighborUp"
    /\ events[1].addr = last.rx.src
    /\ events[1].neighbor.hello_history = 1

\* C8: every poll that reaches its prune step removes exactly the neighbors that
\* are stale under multiplier 3 at that instant and appends exactly one
\* NeighborDown(addr) per removed neighbor, after any events of the datagram
\* dispatched in the same poll; afterwards no removed address has a record.
C8_PruneInPoll ==
    [][ (last'.op = "poll" /\ last'.pruned) =>
          LET rx == last'.rx
              mid == IF rx.kind = "Ok" THEN After(rx, Len(rx.tlvs)) ELSE Pre
              R == C10_Expired(mid.neighbors, last'.tp, 3)
              downs == SubSeq(events', Len(mid.events) + 1, Len(events'))
          IN  /\ neighbors' = [ a \in Addrs |-> IF a \in R THEN None ELSE mid.neighbors[a] ]
              /\ SubSeq(events', 1, Len(mid.events)) = mid.events
              /\ Len(downs) = Cardinality(R)
              /\ \A a \in R : \E i \in 1..Len(downs) : downs[i] = NeighborDown(a)
              /\ \A a \in R : neighbors'[a] = None
      ]_vars

\* a poll dispatched a Hello of a new peer and pruned that peer in its prune step
C8_Witness ==
    /\ last.op = "poll"
    /\ last.rx.kind = "Ok"
    /\ last.removed = << last.rx.src >>
    /\ Len(events) >= 2
    /\ events[Len(events) - 1].type = "NeighborUp"
    /\ events[Len(events)] = NeighborDown(last.rx.src)
    /\ \E a \in Addrs : IsSome(neighbors[a])

\* C9: if a neighbor has received a Hello and no further Hello from its address is
\* received, then, provided polls keep happening without failing in the receive
\* step and the clock passes the deadline (it can, within the model's horizon), a
\* NeighborDown for the address is emitted and the record is removed.
C9_Silent(a, h) ==
    /\ IsSome(neighbors[a])
    /\ Unwrap(neighbors[a]).hello_history = h
    /\ IsSome(Unwrap(neighbors[a]).last_hello_rx)
    /\ Unwrap(Unwrap(neighbors[a]).last_hello_rx)
         + 3 * Unwrap(Unwrap(neighbors[a]).hello_interval_ms) < MaxTime

C9_Down(a) ==
    /\ neighbors[a] = None
    /\ last.op = "poll"
    /\ \E i \in 1..Len(last.removed) :
          /\ last.removed[i] = a
          /\ events[Len(events) - Len(last.removed) + i] = NeighborDown(a)

C9_HeardAgain(a, h) ==
    /\ IsSome(neighbors[a])
    /\ Unwrap(neighbors[a]).hello_history # h

C9_EventuallyDown ==
    \A a \in Addrs : \A h \in 1..(2 ^ MaxDgrams - 1) :
        C9_Silent(a, h) ~> (C9_Down(a) \/ C9_HeardAgain(a, h))

\* a neighbor that had sent a Hello with interval 1 was pruned after its deadline
C9_Witness ==
    \E a \in Addrs :
        /\ C9_Down(a)
        /\ now = MaxTime
        /\ \E i \in 1..Len(events) :
              /\ events[i].type = "NeighborUp"
              /\ events[i].addr = a
              /\ events[i].neighbor.hello_interval_ms = Some(1)

\* the records of a neighbor table
Records(tbl) == { Unwrap(tbl[a]) : a \in { x \in Addrs : IsSome(tbl[x]) } }

\* C11: in every neighbor record reachable through the table operations, the Hello
\* interval is known only if a last-Hello time and a last Hello seqno are recorded,
\* and rxcost is known only if a last-IHU time is recorded.
C11_RecordInvariant ==
    \A n \in Records(neighbors) :
        /\ IsSome(n.hello_interval_ms) =>
              IsSome(n.last_hello_rx) /\ IsSome(n.last_hello_seqno)
        /\ IsSome(n.rxcost) => IsSome(n.last_ihu_rx)

\* one record heard a Hello and an IHU, another was created by set_txcost alone
C11_Witness ==
    /\ \E n \in Records(neighbors) : IsSome(n.hello_interval_ms) /\ IsSome(n.rxcost)
    /\ \E n \in Records(neighbors) :
          n.hello_interval_ms = None /\ n.rxcost = None /\ IsSome(n.txcost)

\* C12: the neighbor table tracks one record per (source address, interface) pair:
\* an update for a source address on an interface index leaves a record for that
\* address carrying that interface index, whatever other interface the address was
\* heard on before.
C12_PerInterface ==
    [][ last'.op \in { "update_on_hello", "update_on_ihu", "set_txcost" } =>
          \E n \in Records(neighbors') :
              n.addr = last'.arg[1] /\ n.iface_index = last'.arg[2]
      ]_vars

\* the sequence s without its element i
Without(s, i) == SubSeq(s, 1, i - 1) \o SubSeq(s, i + 1, Len(s))

\* C13: dispatching an Update from a source for which no router-id is recorded
\* leaves the routing table and the event queue unchanged, even when a RouterId
\* TLV of that source follows later in the same datagram; the remaining TLVs are
\* still dispatched (the datagram acts as it would without that Update).
C13_UpdateWithoutRouterId ==
    [][ DispatchStep =>
          /\ DispatchedAll
          /\ \A i \in 1..Len(last'.rx.tlvs) :
                LET rx == last'.rx
                    pre == After(rx, i - 1)
                    post == After(rx, i)
                    si == pre.source_info[rx.src]
                IN  ( /\ rx.tlvs[i].type = "Update"
                      /\ (si = None \/ Unwrap(si).router_id = None) ) =>
                    /\ post.routes = pre.routes
                    /\ post.events = pre.events
                    /\ After(rx, Len(rx.tlvs)) =
                         handle_tlvs_from(Pre, rx.src, Without(rx.tlvs, i), now, 1)
      ]_vars

\* an Update was dropped and the RouterId that followed it was recorded
C13_Witness ==
    /\ last.op = "poll"
    /\ last.rx.kind = "Ok"
    /\ count = 1
    /\ Len(last.rx.tlvs) = 2
    /\ last.rx.tlvs[1].type = "Update"
    /\ last.rx.tlvs[2].type = "RouterId"
    /\ source_info[last.rx.src] = Some([ router_id |-> Some(last.rx.tlvs[2].router_id),
                                         next_hop |-> None ])
    /\ \A i \in 1..Len(routes) : routes[i].router_id = OwnRouterId
    /\ \A i \in 1..Len(events) : events[i].route.router_id = OwnRouterId

\* the step is a poll that received the datagram last'.rx.buf
WireStep == last'.op = "poll" /\ "buf" \in DOMAIN last'.rx

\* C14: when a received datagram contains a malformed TLV, the whole datagram is
\* dropped: none of its TLVs is dispatched, and the neighbor table, routing table,
\* per-source scratch and event queue are unchanged by it (only the prune step of
\* the poll acts on them).
C14_MalformedDropped ==
    [][ (WireStep /\ last'.rx.buf \in MalformedBufs) =>
          /\ routes' = routes
          /\ source_info' = source_info
          /\ \A a \in Addrs : IsSome(neighbors'[a]) => neighbors'[a] = neighbors[a]
          /\ \A i \in 1..Len(events') : i > Len(events) => events'[i].type = "NeighborDown"
      ]_vars

\* C15: receiving a datagram that fails to decode (a malformed TLV, or a header
\* announcing a body longer than the datagram) does not stop the node: that poll
\* still runs its prune step and returns success.
C15_DecodeErrorRecovered ==
    [][ (WireStep /\ last'.rx.buf \in MalformedBufs \cup OverrunBufs) =>
          last'.pruned /\ last'.ret = "Ok"
      ]_vars

\* the sends of a poll that carry a TLV of type ty, in the order attempted
RECURSIVE Sends(_, _)
Sends(sent, ty) ==
    IF sent = << >> THEN << >>
    ELSE (IF Head(sent).tlv.type = ty THEN << Head(sent) >> ELSE << >>)
         \o Sends(Tail(sent), ty)

AllOk(sent) == \A i \in 1..Len(sent) : sent[i].ok

\* the timers as a poll finds them
HelloDue == last_hello = None \/ now - Unwrap(last_hello) >= config.hello_interval_ms
IhuDue ==
    /\ known_addrs(neighbors) # {}
    /\ last_ihu = None \/ now - Unwrap(last_ihu) >= config.ihu_interval_ms
UpdateDue ==
    /\ config.advertised_prefixes # << >>
    /\ \/ last_update_advert = None
       \/ now - Unwrap(last_update_advert) >= config.update_interval_ms

\* C16: when the send to one destination inside a batch fails, the sends to the
\* remaining destinations of that batch are still attempted in the same poll: an
\* IHU batch attempts every known neighbor, an Update batch every advertised prefix.
C16_BatchContinues ==
    [][ last'.op = "poll" =>
          /\ IhuDue =>
                \A a \in known_addrs(neighbors) :
                    \E i \in 1..Len(last'.sent) :
                        last'.sent[i].tlv.type = "Ihu" /\ last'.sent[i].dest = a
          /\ UpdateDue =>
                Len(Sends(last'.sent, "Update")) = Len(config.advertised_prefixes)
      ]_vars

\* C17: a send failure in any of the three timer steps never aborts poll: the
\* following timer steps, the receive step and the prune step still run, and poll
\* returns success unless the receive step itself fails.
C17_SendFailureNotFatal ==
    [][ (last'.op = "poll" /\ ~AllOk(last'.sent)) =>
          /\ HelloDue => Len(Sends(last'.sent, "Hello")) = 1
          /\ IhuDue => Len(Sends(last'.sent, "Ihu")) >= 1
          /\ UpdateDue => Len(Sends(last'.sent, "Update")) >= 1
          /\ last'.rx.kind = "Ok" => DispatchedAll
          /\ last'.rx.kind # "Err" => last'.pruned /\ last'.ret = "Ok"
          /\ last'.rx.kind = "Err" => ~last'.pruned /\ last'.ret = "Err"
      ]_vars

\* the Hello send failed; an IHU and an Update were still sent, the datagram was
\* dispatched and the poll returned Ok
C17_Witness ==
    /\ last.op = "poll"
    /\ last.ret = "Ok"
    /\ last.rx.kind = "Ok"
    /\ Len(last.sent) >= 3
    /\ ~last.sent[1].ok /\ last.sent[1].tlv.type = "Hello"
    /\ Sends(last.sent, "Ihu") # << >>
    /\ Sends(last.sent, "Update") # << >>
    /\ \E i \in 1..Len(events) : events[i].type = "NeighborUp"

\* 1 when the sends us are a complete, successful Update batch, else 0
BatchDone(us) ==
    IF us # << >> /\ AllOk(us) /\ Len(us) = Len(config.advertised_prefixes) THEN 1 ELSE 0

\* C18: in each poll a Hello is sent iff no Hello was ever sent successfully or at
\* least hello_interval has elapsed since the last successful Hello; a successful
\* send increases seqno by exactly one modulo 2^16 (on top of what the Update batch
\* of the same poll adds) and records the last-Hello time, a failed send changes
\* neither, so the Hello is due again at the next poll.
C18_HelloTimer ==
    [][ last'.op = "poll" =>
          LET hs == Sends(last'.sent, "Hello")
              upd == BatchDone(Sends(last'.sent, "Update"))
          IN  /\ Len(hs) = IF HelloDue THEN 1 ELSE 0
              /\ hs # << >> => hs[1].tlv.seqno = seqno /\ hs[1].dest = Multicast
              /\ IF hs # << >> /\ hs[1].ok
                 THEN /\ last_hello' = Some(now)
                      /\ seqno' = (seqno + 1 + upd) % U16
                 ELSE /\ last_hello' = last_hello
                      /\ seqno' = (seqno + upd) % U16
              /\ (hs # << >> /\ ~hs[1].ok) =>
                    \/ last_hello' = None
                    \/ now' - Unwrap(last_hello') >= config'.hello_interval_ms
      ]_vars

\* a Hello with seqno 65535 was sent when its interval had elapsed; seqno wrapped
C18_Witness ==
    /\ last.op = "poll"
    /\ last.t = 1
    /\ Len(last.sent) >= 1
    /\ last.sent[1].tlv.type = "Hello"
    /\ last.sent[1].ok
    /\ last.sent[1].tlv.seqno = U16 - 1
    /\ seqno = 0
    /\ last_hello = Some(1)

\* C19: when the Update timer fires with k >= 1 advertised prefixes and every send
\* succeeds, exactly k Updates are sent, one per prefix in configuration order,
\* all carrying the same seqno s and each prefix's configured metric, and
\* afterwards seqno is (s + 1) mod 2^16; with no advertised prefixes no Update is
\* sent and seqno and the last-Update time stay unchanged.  (s is the seqno after
\* the Hello step of the same poll.)
C19_UpdateBatch ==
    [][ last'.op = "poll" =>
          LET hs == Sends(last'.sent, "Hello")
              us == Sends(last'.sent, "Update")
              s == (seqno + IF hs # << >> /\ hs[1].ok THEN 1 ELSE 0) % U16
              ps == config.advertised_prefixes
          IN  /\ ps = << >> =>
                    us = << >> /\ seqno' = s /\ last_update_advert' = last_update_advert
              /\ ~UpdateDue => us = << >>
              /\ (UpdateDue /\ AllOk(us)) =>
                    /\ Len(us) = Len(ps)
                    /\ \A i \in 1..Len(ps) :
                          /\ us[i].tlv.ae = ps[i].ae
                          /\ us[i].tlv.plen = ps[i].plen
                          /\ us[i].tlv.prefix = ps[i].prefix
                          /\ us[i].tlv.metric = ps[i].metric
                          /\ us[i].tlv.seqno = s
                    /\ seqno' = (s + 1) % U16
                    /\ last_update_advert' = Some(now)
      ]_vars

\* a batch of two Updates with seqno 65535 went out; seqno wrapped to 0
C19_Witness ==
    /\ last.op = "poll"
    /\ Len(Sends(last.sent, "Update")) = 2
    /\ AllOk(Sends(last.sent, "Update"))
    /\ Sends(last.sent, "Update")[2].tlv.seqno = U16 - 1
    /\ Sends(last.sent, "Update")[2].tlv.metric = 200
    /\ seqno = 0

\* the key of an advertised prefix
PrefixKey(p) == [ ae |-> p.ae, plen |-> p.plen, prefix |-> p.prefix ]

\* the local route construction makes for an advertised prefix
LocalRoute(p) == Route(PrefixKey(p), p.metric, InitialSeqno, OwnRouterId, None, OwnIface)

\* the events a new node holds if every entry of the prefix list ps, from entry i
\* on, gives RouteUpdated then BestRouteChanged
RECURSIVE TwoEach(_, _)
TwoEach(ps, i) ==
    IF i > Len(ps) THEN << >>
    ELSE << RouteUpdated(PrefixKey(ps[i]), LocalRoute(ps[i])),
            BestRouteChanged(PrefixKey(ps[i]), LocalRoute(ps[i])) >> \o TwoEach(ps, i + 1)

\* C20 as stated: construction installs a local route for each entry of
\* advertised_prefixes and emits RouteUpdated then BestRouteChanged for each entry,
\* in configuration order: a new node's event queue holds two events per entry.
C20_TwoEventsPerPrefix ==
    last.op = "new" =>
        LET ps == config.advertised_prefixes
        IN  /\ Len(events) = 2 * Len(ps)
            /\ events = TwoEach(ps, 1)
            /\ \A i \in 1..Len(ps) : \E j \in 1..Len(routes) : routes[j] = LocalRoute(ps[i])

\* entry i of ps takes effect: no earlier entry has its key, or its metric is
\* strictly lower than that of every earlier entry with its key
C20_Effective(ps, i) ==
    \A j \in 1..(i - 1) :
        PrefixKey(ps[j]) = PrefixKey(ps[i]) => ps[i].metric < ps[j].metric

RECURSIVE C20_Events(_, _)
C20_Events(ps, i) ==
    IF i > Len(ps) THEN << >>
    ELSE (IF C20_Effective(ps, i)
          THEN << RouteUpdated(PrefixKey(ps[i]), LocalRoute(ps[i])),
                  BestRouteChanged(PrefixKey(ps[i]), LocalRoute(ps[i])) >>
          ELSE << >>) \o C20_Events(ps, i + 1)

\* C20, amended: construction installs the local route of every entry that takes
\* effect (replacing in place the route of an earlier entry with the same key) and
\* emits RouteUpdated then BestRouteChanged for it, in configuration order; an
\* entry whose key was configured before with a metric not higher is ignored and
\* emits nothing.  With pairwise distinct keys the queue holds two events per entry.
C20_LocalRoutes ==
    last.op = "new" =>
        LET ps == config.advertised_prefixes
            keys == { PrefixKey(ps[i]) : i \in 1..Len(ps) }
        IN  /\ events = C20_Events(ps, 1)
            /\ Len(routes) = Cardinality(keys)
            /\ \A i \in 1..Len(ps) :
                  (\A j \in 1..Len(ps) : C20_Effective(ps, j) /\ PrefixKey(ps[j]) = PrefixKey(ps[i])
                                          => j <= i)
                  /\ C20_Effective(ps, i)
                  => \E j \in 1..Len(routes) : routes[j] = LocalRoute(ps[i])
            /\ Cardinality(keys) = Len(ps) => events = TwoEach(ps, 1)

\* a node constructed with the same prefix twice, the second time with a higher
\* metric: one route, two events
C20_Witness ==
    /\ last.op = "new"
    /\ Len(config.advertised_prefixes) = 2
    /\ config.advertised_prefixes[2].metric > config.advertised_prefixes[1].metric
    /\ Len(routes) = 1
    /\ Len(events) = 2
    /\ events[2].type = "BestRouteChanged"

\* the identifying tuples of a table
Tuples(rs) == { IdTuple(rs[i]) : i \in 1..Len(rs) }

\* the step is a poll whose prune step removed a neighbor
PruneStep == last'.op = "poll" /\ last'.pruned /\ last'.removed # << >>

\* C21: across polls, TLV dispatch and drain_events the set of identifying tuples
\* in the node's routing table only grows; a drain leaves the table as it is, and
\* a poll that prunes neighbors leaves the table as the dispatch of its datagram
\* left it, so the routes learned from a pruned neighbor stay.
C21_RoutesOnlyGrow ==
    [][ /\ Tuples(routes) \subseteq Tuples(routes')
        /\ Len(routes') >= Len(routes)
        /\ last'.op = "drain_events" => routes' = routes
        /\ PruneStep =>
              routes' = IF last'.rx.kind = "Ok"
                        THEN After(last'.rx, Len(last'.rx.tlvs)).routes
                        ELSE routes ]_vars

\* a neighbor was pruned in the last poll, and a route learned from it is still
\* the best route of its prefix
C21_Witness ==
    /\ last.op = "poll"
    /\ last.pruned
    /\ \E i \in 1..Len(last.removed), j \in 1..Len(routes) :
          /\ neighbors[last.removed[i]] = None
          /\ routes[j].next_hop = Some(ip(last.removed[i]))
          /\ routes[j].router_id = Rid(1)
          /\ best_route(routes, routes[j].key) = Some(routes[j])
          /\ events[Len(events)] = NeighborDown(last.removed[i])

\* the number of bytes that hold plen bits
BytesOf(plen) == (plen + 7) \div 8

\* C22: every route key stored in the node's routing table, installed from the
\* configuration or from a received Update (Updates with omitted > 0 included),
\* has a prefix of exactly ceil(plen / 8) bytes.
C22_PrefixLength ==
    \A i \in 1..Len(routes) : Len(routes[i].key.prefix) = BytesOf(routes[i].key.plen)

\* C23: for every TLV value t of every variant, with every sub-TLV list,
\* parse(to_bytes(t)) returns a value equal to t.
C23_RoundTrip ==
    last.op = "parse_encoded" => last.ret.ok /\ last.ret.val = last.tlv

\* a buffer of a type byte beyond 10, a length byte L and exactly L body bytes
IsUnknownBuf(buf) == Len(buf) >= 2 /\ buf[1] > 10 /\ Len(buf) = 2 + buf[2]

\* C24: for every byte string of a type byte greater than 10, a length byte L and
\* exactly L body bytes, parse yields Unknown{type, body} and consumes the whole
\* string, and encoding that value reproduces the bytes.
C24_UnknownRoundTrip ==
    /\ (last.op = "parse" /\ IsUnknownBuf(last.buf)) =>
          /\ last.ret.ok
          /\ last.ret.val = Unknown(last.buf[1], Rest(last.buf, 2))
          /\ last.ret.pos = Len(last.buf)
    /\ (last.op = "reencode" /\ IsUnknownBuf(last.buf)) =>
          /\ last.tlv.type = "Unknown"
          /\ last.bytes = last.buf

\* an unknown TLV with the longest body a length byte admits went through parse
\* and to_bytes
C24_Witness ==
    /\ last.op = "reencode"
    /\ IsUnknownBuf(last.buf)
    /\ last.buf[2] = 255
    /\ last.tlv = Unknown(last.buf[1], zeros(255))
    /\ last.bytes = last.buf

\* C25: parse_all returns Ok with all TLVs in wire order when the buffer is a
\* concatenation of well-formed TLVs, and returns an error when the buffer holds
\* malformed data such as a TLV whose length exceeds the remaining buffer.
C25_ParseAllResult ==
    last.op = "parse_all" =>
        /\ \A d \in Datagrams(WireTlvs) : last.buf = tlvs_bytes(d) => last.all = Ok(d)
        /\ last.buf \in MalformedBodies => ~last.all.ok

\* the buffer begins with magic 42, version 2 and a two-byte body length
HasHeader(buf) == Len(buf) >= 4 /\ buf[1] = 42 /\ buf[2] = 2
\* the body length the header announces, big-endian
BodyLength(buf) == buf[3] * 256 + buf[4]

\* C26: decoding a buffer that begins with magic, version and a body length B:
\* if B <= len - 4 the result is that of parsing the B bytes after the header,
\* whatever follows them; if B > len - 4 decoding fails with an error.
C26_HeaderWindow ==
    (last.op = "from_bytes" /\ HasHeader(last.buf)) =>
        LET buf == last.buf
            B == BodyLength(buf)
        IN  IF B <= Len(buf) - 4
            THEN /\ last.pkt = parse_all(SubSeq(buf, 5, 4 + B))
                 /\ \A d \in Datagrams(WireTlvs), tr \in Trailers :
                       buf = WithHeader(tlvs_bytes(d)) \o tr => last.pkt = Ok(d)
            ELSE ~last.pkt.ok

\* a packet of two TLVs was decoded, and the well-formed Hello behind its window
\* was ignored
C26_Witness ==
    /\ last.op = "from_bytes"
    /\ HasHeader(last.buf)
    /\ BodyLength(last.buf) = Len(last.buf) - 4 - 8
    /\ SubSeq(last.buf, 5 + BodyLength(last.buf), Len(last.buf)) = << 4, 6, 0, 0, 0, 9, 0, 0 >>
    /\ last.pkt.ok
    /\ Len(last.pkt.val) = 2
    /\ \A i \in 1..2 : last.pkt.val[i] # Hello(0, 9, 0, << >>)

\* C27 as stated: the header window is used only when the first two bytes are
\* magic and version and 4 + body_length <= buffer length; in every other case,
\* a header whose body length overruns the buffer included, the whole buffer is
\* parsed as a raw TLV body.
C27_LenientFallback ==
    last.op = "from_bytes" =>
        LET buf == last.buf
        IN  IF HasHeader(buf) /\ 4 + BodyLength(buf) <= Len(buf)
            THEN last.pkt = parse_all(SubSeq(buf, 5, 4 + BodyLength(buf)))
            ELSE last.pkt = parse_all(buf)

\* C27, amended: the header window is used when the buffer has at least four
\* bytes, begins with magic and version and 4 + body_length <= buffer length; a
\* buffer that begins with magic and version and whose body length overruns it is
\* an error; every other buffer (no magic or version, or shorter than a header)
\* is parsed whole as a raw TLV body.
C27_WindowErrorOrRaw ==
    last.op = "from_bytes" =>
        LET buf == last.buf
        IN  IF ~HasHeader(buf)
            THEN /\ last.pkt = parse_all(buf)
                 /\ \A d \in Datagrams(WireTlvs) : buf = tlvs_bytes(d) => last.pkt = Ok(d)
            ELSE IF 4 + BodyLength(buf) <= Len(buf)
            THEN last.pkt = parse_all(SubSeq(buf, 5, 4 + BodyLength(buf)))
            ELSE last.pkt = Err("Babel body length exceeds buffer")

\* a buffer of two TLVs without a header was decoded as a raw TLV body
C27_Witness ==
    /\ last.op = "from_bytes"
    /\ ~HasHeader(last.buf)
    /\ last.buf \in GoodBodies
    /\ last.pkt.ok
    /\ Len(last.pkt.val) = 2
    /\ tlvs_bytes(last.pkt.val) = last.buf

\* the larger of two numbers
Max2(a, b) == IF a >= b THEN a ELSE b

\* C28: link_cost of a neighbor record is max(rxcost, txcost) when both are
\* known, the known one when exactly one is known, and None when neither is.
C28_LinkCost ==
    last.op = "link_cost" =>
        LET rx == Rec.rxcost
            tx == Rec.txcost
        IN  /\ (IsSome(rx) /\ IsSome(tx)) => last.ret = Some(Max2(Unwrap(rx), Unwrap(tx)))
            /\ (IsSome(rx) /\ tx = None) => last.ret = rx
            /\ (rx = None /\ IsSome(tx)) => last.ret = tx
            /\ (rx = None /\ tx = None) => last.ret = None

\* link_cost was taken of a record whose txcost is the larger one
C28_Witness ==
    /\ last.op = "link_cost"
    /\ Rec.rxcost = Some(96)
    /\ Rec.txcost = Some(256)
    /\ last.ret = Some(256)

\* bit i of an unsigned integer is set
BitSet(h, i) == (h \div (2 ^ i)) % 2 = 1

\* C29: for every history value and every window k in 0..255, is_reachable(k) is
\* true iff one of the low min(k, 16) bits of hello_history is set; it is true
\* for window 3 after three consecutive Hellos and false for window 0.
C29_IsReachable ==
    last.op = "is_reachable" =>
        LET k == last.window
            low == IF k <= 16 THEN k ELSE 16
        IN  /\ last.ret = (\E i \in 0..(low - 1) : BitSet(Rec.hello_history, i))
            /\ k = 0 => last.ret = FALSE
            /\ (k = 3 /\ count = 3) => last.ret = TRUE

\* is_reachable(3) was asked of a record after three consecutive Hellos
C29_Witness ==
    /\ last.op = "is_reachable"
    /\ last.window = 3
    /\ count = 3
    /\ Rec.hello_history = 7
    /\ Rec.last_hello_rx = Some(0)
    /\ last.ret = TRUE

\* the elements of a sequence are pairwise distinct
Distinct(s) == \A i, j \in 1..Len(s) : i # j => s[i] # s[j]

\* C30: every poll does a bounded amount of work: it sends at most one Hello, at
\* most one IHU batch (one IHU per known neighbor at most) and at most one Update
\* batch (one Update per advertised prefix at most, in order), so that seqno
\* advances by at most 2; it dispatches the TLVs of at most one received datagram,
\* each once; and it runs at most one prune pass, which removes each neighbor at
\* most once.
C30_BoundedPoll ==
    [][ last'.op = "poll" =>
          LET sent == last'.sent
              hs == Sends(sent, "Hello")
              is == Sends(sent, "Ihu")
              us == Sends(sent, "Update")
              fin == IF last'.rx.kind = "Ok"
                     THEN After(last'.rx, Len(last'.rx.tlvs)) ELSE Pre
          IN  /\ Len(sent) = Len(hs) + Len(is) + Len(us)
              /\ Len(hs) <= 1
              /\ Len(is) <= Cardinality(known_addrs(neighbors))
              /\ Distinct([ i \in 1..Len(is) |-> is[i].dest ])
              /\ Len(us) <= Len(config.advertised_prefixes)
              /\ \A i \in 1..Len(us) :
                    us[i].tlv.prefix = config.advertised_prefixes[i].prefix
              /\ seqno' \in { (seqno + d) % U16 : d \in 0..2 }
              /\ count' <= count + 1
              /\ routes' = fin.routes
              /\ source_info' = fin.source_info
              /\ Distinct(last'.removed)
              /\ \A i \in 1..Len(last'.removed) : IsSome(fin.neighbors[last'.removed[i]])
              /\ events' = fin.events \o down_events(last'.removed, 1)
              /\ ~last'.pruned => neighbors' = fin.neighbors /\ last'.removed = << >>
      ]_vars

\* one poll sent a Hello, an IHU and both Updates, which took seqno from 65535 to
\* 1, dispatched a datagram of two Hellos and pruned the other neighbor
C30_Witness ==
    /\ last.op = "poll"
    /\ Len(Sends(last.sent, "Hello")) = 1
    /\ last.sent[1].tlv.seqno = U16 - 1
    /\ seqno = 1
    /\ Len(Sends(last.sent, "Ihu")) >= 1
    /\ Len(Sends(last.sent, "Update")) = 2
    /\ last.rx.kind = "Ok"
    /\ Len(last.rx.tlvs) = 2
    /\ last.pruned
    /\ Len(last.removed) = 1
    /\ last.removed[1] # last.rx.src

\* the next-hop the scratch holds for a source, None when it holds none
ScratchHop(si, a) == IF IsSome(si[a]) THEN Unwrap(si[a]).next_hop ELSE None

\* the positions before position i of a datagram that hold a NextHop TLV
HopsBefore(tlvs, i) == { k \in 1..(i - 1) : tlvs[k].type = "NextHop" }

\* the largest element of a non-empty set of numbers
Max(S) == CHOOSE x \in S : \A y \in S : x >= y

\* the address a NextHop TLV from src stands for
HopAddr(tlv, src) == IF IsSome(tlv.addr) THEN tlv.addr ELSE Some(ip(src))

\* the next-hop an Update at position i of the datagram rx is to get: that of the
\* most recent NextHop TLV of the source, in this datagram or as the earlier
\* datagrams left it, or the source IP when there was none
ExpectedHop(rx, i) ==
    LET K == HopsBefore(rx.tlvs, i)
    IN  IF K # {} THEN HopAddr(rx.tlvs[Max(K)], rx.src)
        ELSE IF IsSome(ScratchHop(source_info, rx.src)) THEN ScratchHop(source_info, rx.src)
        ELSE Some(ip(rx.src))

\* C31: every route installed from a received Update has a next-hop that is
\* present and is the address of the most recent NextHop TLV from that source
\* (the source IP if that TLV carried none), or the source IP if no NextHop TLV
\* from that source was ever processed.  The scratch starts without next-hops and
\* holds for each source what its most recent NextHop TLV stands for; every entry
\* an Update writes to the table carries the next-hop expected at its position.
C31_NextHop ==
    /\ \A a \in Addrs : ScratchHop(source_info, a) = None
    /\ [][ /\ \A a \in Addrs :
                ScratchHop(source_info', a) =
                    IF DispatchStep /\ last'.rx.src = a
                                    /\ HopsBefore(last'.rx.tlvs, Len(last'.rx.tlvs) + 1) # {}
                    THEN HopAddr(last'.rx.tlvs[Max(HopsBefore(last'.rx.tlvs,
                                                              Len(last'.rx.tlvs) + 1))], a)
                    ELSE ScratchHop(source_info, a)
           /\ DispatchStep =>
                \A i \in 1..Len(last'.rx.tlvs) :
                    LET rx == last'.rx
                        pre == After(rx, i - 1)
                        post == After(rx, i)
                    IN  \A j \in 1..Len(post.routes) :
                            (j > Len(pre.routes) \/ post.routes[j] # pre.routes[j]) =>
                                /\ rx.tlvs[i].type = "Update"
                                /\ IsSome(post.routes[j].next_hop)
                                /\ post.routes[j].next_hop = ExpectedHop(rx, i)
           /\ \A j \in 1..Len(routes') :
                routes'[j].router_id # OwnRouterId => IsSome(routes'[j].next_hop)
         ]_vars

\* the second datagram of a source held only an Update, and its route got the
\* address of the NextHop TLV of the first datagram
C31_Witness ==
    /\ last.op = "poll"
    /\ last.rx.kind = "Ok"
    /\ count = 2
    /\ Len(last.rx.tlvs) = 1
    /\ last.rx.tlvs[1].type = "Update"
    /\ ScratchHop(source_info, last.rx.src) = Some(OtherIp)
    /\ \E j \in 1..Len(routes) :
          /\ routes[j].next_hop = Some(OtherIp)
          /\ routes[j].seqno = last.rx.tlvs[1].seqno
          /\ routes[j].metric = last.rx.tlvs[1].metric
    /\ events # << >>
    /\ events[Len(events)].route.next_hop = Some(OtherIp)

\* 1 when the sends hs are a successful Hello, else 0
HelloDone(hs) == IF hs # << >> /\ AllOk(hs) THEN 1 ELSE 0

\* C32: Hello seqnos and Update seqnos come from one counter that starts at 1: a
\* new node has seqno 1, and every poll adds to it one for a successful Hello send
\* and one for a completed Update batch, modulo 2^16, nothing else changes it; in
\* a poll where both timers fire and all sends succeed the Hello carries seqno s,
\* every Update (s + 1) mod 2^16, and seqno is (s + 2) mod 2^16 afterwards.
C32_SharedSeqno ==
    /\ last.op = "new" => seqno = 1
    /\ [][ IF last'.op = "poll"
           THEN LET hs == Sends(last'.sent, "Hello")
                    us == Sends(last'.sent, "Update")
                IN  /\ seqno' = (seqno + HelloDone(hs) + BatchDone(us)) % U16
                    /\ \A i \in 1..Len(hs) : hs[i].tlv.seqno = seqno
                    /\ \A i \in 1..Len(us) :
                          us[i].tlv.seqno = (seqno + HelloDone(hs)) % U16
                    /\ (HelloDue /\ UpdateDue /\ AllOk(last'.sent)) =>
                          /\ Len(hs) = 1
                          /\ Len(us) = Len(config.advertised_prefixes)
                          /\ \A i \in 1..Len(us) : us[i].tlv.seqno = (seqno + 1) % U16
                          /\ seqno' = (seqno + 2) % U16
           ELSE seqno' = seqno
         ]_vars

\* one poll sent the Hello with seqno 65535 and both Updates with seqno 0, and
\* left seqno at 1
C32_Witness ==
    /\ last.op = "poll"
    /\ AllOk(last.sent)
    /\ Sends(last.sent, "Hello") # << >>
    /\ Sends(last.sent, "Hello")[1].tlv.seqno = U16 - 1
    /\ Len(Sends(last.sent, "Update")) = 2
    /\ \A i \in 1..2 : Sends(last.sent, "Update")[i].tlv.seqno = 0
    /\ seqno = 1

C34_OnHello ==
    [][ last'.op = "update_on_hello" =>
          LET src == last'.arg[1]
              old == neighbors[src]
              before == IF IsSome(old) THEN Unwrap(old) ELSE Neighbor_new(src, last'.arg[2])
              n == Unwrap(neighbors'[src])
          IN  /\ IsSome(neighbors'[src])
              /\ n.addr = src
              /\ old = None => n.iface_index = last'.arg[2]
              /\ n.iface_index = before.iface_index
              /\ n.last_hello_seqno = Some(last'.arg[3])
              /\ n.hello_interval_ms = Some(last'.arg[4])
              /\ n.last_hello_rx = Some(now)
              /\ n.hello_history = (2 * before.hello_history + 1) % U16
              /\ n.rxcost = before.rxcost
              /\ n.txcost = before.txcost
              /\ n.last_ihu_rx = before.last_ihu_rx
              /\ \A a \in Addrs \ {src} : neighbors'[a] = neighbors[a]
      ]_vars

\* a Hello on another interface reached a record that had heard sixteen Hellos and
\* an IHU and had a txcost, while the other address had a record too
C34_Witness ==
    /\ last.op = "update_on_hello"
    /\ count = 3
    /\ now = 1
    /\ LET n == Unwrap(neighbors[last.arg[1]])
       IN  /\ n.hello_history = U16 - 1
           /\ n.iface_index # last.arg[2]
           /\ n.last_hello_seqno = Some(65535)
           /\ IsSome(n.rxcost) /\ IsSome(n.txcost)
    /\ \E a \in Addrs \ {last.arg[1]} : IsSome(neighbors[a])

\* the number of Hellos a history of the form 2^j - 1 stands for (17 for any other)
HellosIn(h) == IF \E j \in 0..16 : h = 2 ^ j - 1
               THEN CHOOSE j \in 0..16 : h = 2 ^ j - 1
               ELSE 17

\* C35: the Hello history of every neighbor record is 2^j - 1, j the number of
\* Hellos the record received, capped at 16: a record starts with none, a Hello
\* takes j to min(j + 1, 16), nothing else changes the history of a record that
\* stays; so once a record has received a Hello, is_reachable(k) is true for every
\* k >= 1 until the record is pruned.
C35_HistoryForm ==
    /\ [](\A n \in Records(neighbors) :
             /\ HellosIn(n.hello_history) <= 16
             /\ n.hello_history # 0 => \A k \in 1..MaxWindow : is_reachable(n, k))
    /\ [][ \A a \in Addrs :
             LET heard == last'.op = "update_on_hello" /\ last'.arg[1] = a
                 j == IF IsSome(neighbors[a])
                      THEN HellosIn(Unwrap(neighbors[a]).hello_history) ELSE 0
             IN  /\ heard => IsSome(neighbors'[a])
                 /\ IsSome(neighbors'[a]) =>
                       HellosIn(Unwrap(neighbors'[a]).hello_history)
                         = IF heard THEN Min({j + 1, 16}) ELSE j
                 /\ (IsSome(neighbors[a]) /\ neighbors'[a] = None) =>
                       /\ last'.op = "prune_stale"
                       /\ is_stale(Unwrap(neighbors[a]), now, PruneMultiplier)
         ]_vars

\* a record that had heard sixteen Hellos heard one more, while the other record
\* was made by an IHU and never heard a Hello
C35_Witness ==
    /\ last.op = "update_on_hello"
    /\ now = 1
    /\ LET n == Unwrap(neighbors[last.arg[1]])
       IN  n.hello_history = 2 ^ 16 - 1 /\ n.last_hello_rx = Some(1)
    /\ \E a \in Addrs \ {last.arg[1]} :
          /\ IsSome(neighbors[a])
          /\ Unwrap(neighbors[a]).hello_history = 0
          /\ ~is_reachable(Unwrap(neighbors[a]), 16)

\* C36: across an install_or_update call the stored metric of every identifying
\* tuple of the table does not increase, and where it stays equal the stored seqno
\* does not decrease; a route with a higher metric than the stored one (0xFFFF
\* included), whatever its seqno, leaves the entry and the table as they were.
C36_MetricMonotone ==
    [][ last'.op = "install_or_update" =>
          /\ \A i \in 1..Len(routes) :
                /\ i <= Len(routes')
                /\ IdTuple(routes'[i]) = IdTuple(routes[i])
                /\ routes'[i].metric <= routes[i].metric
                /\ routes'[i].metric = routes[i].metric =>
                      routes'[i].seqno >= routes[i].seqno
                /\ (IdTuple(last'.arg) = IdTuple(routes[i])
                      /\ last'.arg.metric > routes[i].metric) =>
                      /\ routes' = routes
                      /\ last'.ret = FALSE
      ]_vars

\* a retraction (metric 0xFFFF) with the higher seqno met an entry of its tuple
\* with metric 100 and seqno 1 and was ignored
C36_Witness ==
    /\ last.op = "install_or_update"
    /\ last.ret = FALSE
    /\ last.arg.metric = 65535
    /\ last.arg.seqno = 65535
    /\ \E i \in 1..Len(routes) :
          /\ IdTuple(routes[i]) = IdTuple(last.arg)
          /\ routes[i].metric = 100
          /\ routes[i].seqno = 1

\* the entries of a table that have no next-hop, in table order
Locals(rs) == SelectSeq(rs, LAMBDA r : r.next_hop = None)

\* the least metric the prefix list ps gives the key k
LeastMetric(ps, k) == Min({ ps[i].metric : i \in { j \in 1..Len(ps) : PrefixKey(ps[j]) = k } })

\* C37: the routes without a next-hop are exactly the local routes construction
\* installed, one per advertised key, with the node's router-id and interface,
\* seqno 1 and the advertised metric; no poll, whatever it receives or sends,
\* modifies or removes them, while the node's seqno and the seqno of its Updates
\* advance.
C37_LocalRoutes ==
    /\ [](LET ls == Locals(routes)
              ps == config.advertised_prefixes
          IN  /\ \A i \in 1..Len(ls) :
                    /\ ls[i].router_id = OwnRouterId
                    /\ ls[i].iface_index = OwnIface
                    /\ ls[i].seqno = InitialSeqno
                    /\ \E j \in 1..Len(ps) : ls[i].key = PrefixKey(ps[j])
                    /\ ls[i].metric = LeastMetric(ps, ls[i].key)
                    /\ \A j \in 1..Len(ls) : ls[j].key = ls[i].key => j = i
              /\ \A j \in 1..Len(ps) : \E i \in 1..Len(ls) : ls[i].key = PrefixKey(ps[j]))
    /\ [][Locals(routes') = Locals(routes)]_vars

\* the node's seqno has advanced and its last poll sent an Update with seqno 2,
\* a route for the node's own prefix under its own router-id with a better metric
\* was installed from a peer, and the local route still has seqno 1 and metric 100
C37_Witness ==
    /\ last.op = "poll"
    /\ seqno > 2
    /\ \E i \in 1..Len(last.sent) :
          last.sent[i].tlv.type = "Update" /\ last.sent[i].tlv.seqno > 1
    /\ \E i, j \in 1..Len(routes) :
          /\ routes[i].next_hop = None
          /\ routes[i].metric = 100
          /\ routes[i].seqno = 1
          /\ IsSome(routes[j].next_hop)
          /\ routes[j].key = routes[i].key
          /\ routes[j].router_id = OwnRouterId
          /\ routes[j].metric = 50

\* how many events of s equal e
Times(s, e) == Cardinality({ i \in 1..Len(s) : s[i] = e })

\* how many NeighborUp events for a are in s
Ups(s, a) == Cardinality({ i \in 1..Len(s) : s[i].type = "NeighborUp" /\ s[i].addr = a })

\* the datagram's first Hello or IHU is a Hello
HelloFirst(tlvs) ==
    \E i \in 1..Len(tlvs) :
        /\ tlvs[i].type = "Hello"
        /\ \A j \in 1..(i - 1) : tlvs[j].type \notin { "Hello", "Ihu" }

\* C38: a poll emits NeighborUp for a source only if the table had no record of it
\* and the first Hello or IHU of the source's datagram is a Hello; so a record that
\* an IHU created gets no NeighborUp from any later Hello while it lives, yet it is
\* pruned with a NeighborDown like any other once it has heard a Hello and gone
\* stale: NeighborDown(addr) occurs without a NeighborUp(addr) before it.
C38_IhuFirst ==
    [][ last'.op = "poll" =>
          LET new == SubSeq(emitted', Len(emitted) + 1, Len(emitted'))
              rx == last'.rx
          IN  \A a \in Addrs :
                /\ Ups(new, a) =
                     IF neighbors[a] = None /\ rx.kind = "Ok" /\ rx.src = a
                        /\ HelloFirst(rx.tlvs)
                     THEN 1 ELSE 0
                /\ Times(new, NeighborDown(a)) =
                     IF a \in { last'.removed[i] : i \in 1..Len(last'.removed) } THEN 1 ELSE 0
                /\ Times(new, NeighborDown(a)) = 1 =>
                     /\ neighbors'[a] = None
                     /\ IsSome(neighbors[a]) \/ (rx.kind = "Ok" /\ rx.src = a)
                /\ (IsSome(neighbors[a]) /\ Unwrap(neighbors[a]).last_hello_rx = None
                      /\ ~(rx.kind = "Ok" /\ rx.src = a)) =>
                     neighbors'[a] = neighbors[a]
      ]_vars

\* the first event the node ever pushed for a source is its NeighborDown: the
\* source's record was made by an IHU, heard a Hello later and went stale
C38_Witness ==
    \E a \in Addrs :
        /\ Len(emitted) >= 1
        /\ emitted[1] = NeighborDown(a)
        /\ Ups(emitted, a) = 0
        /\ neighbors[a] = None

\* the router-id the scratch holds for a source, None when it holds none
ScratchRid(si, a) == IF IsSome(si[a]) THEN Unwrap(si[a]).router_id ELSE None

\* the positions before position i of a datagram that hold a RouterId TLV
RidsBefore(tlvs, i) == { k \in 1..(i - 1) : tlvs[k].type = "RouterId" }

\* the router-id in force at position i of the datagram rx: that of the most recent
\* RouterId TLV of the source, in this datagram or as the earlier datagrams left it
ExpectedRid(rx, i) ==
    LET K == RidsBefore(rx.tlvs, i)
    IN  IF K # {} THEN Some(rx.tlvs[Max(K)].router_id)
        ELSE ScratchRid(source_info, rx.src)

\* C39: the scratch of a source is never cleared: an entry stays, and only a
\* RouterId TLV of the source changes its router-id and only a NextHop TLV of the
\* source its next-hop; pruning and NeighborDown leave it alone.  So an Update of a
\* source, whether or not the source is a neighbor still, is installed under the
\* router-id and next-hop the scratch held.
C39_ScratchKept ==
    [][ /\ \A a \in Addrs :
             LET mine == DispatchStep /\ last'.rx.src = a
                 n == IF mine THEN Len(last'.rx.tlvs) + 1 ELSE 1
                 tlvs == IF mine THEN last'.rx.tlvs ELSE << >>
             IN  /\ IsSome(source_info[a]) => IsSome(source_info'[a])
                 /\ ~mine => source_info'[a] = source_info[a]
                 /\ RidsBefore(tlvs, n) = {} =>
                       ScratchRid(source_info', a) = ScratchRid(source_info, a)
                 /\ HopsBefore(tlvs, n) = {} =>
                       ScratchHop(source_info', a) = ScratchHop(source_info, a)
                 /\ mine => /\ ScratchRid(source_info', a) = ExpectedRid(last'.rx, n)
                            /\ (HopsBefore(tlvs, n) # {} =>
                                  ScratchHop(source_info', a) = ExpectedHop(last'.rx, n))
        /\ DispatchStep =>
             \A i \in 1..Len(last'.rx.tlvs) :
                LET rx == last'.rx
                    tlv == rx.tlvs[i]
                IN  (tlv.type = "Update" /\ IsSome(ExpectedRid(rx, i))) =>
                       \E j \in 1..Len(routes') :
                          /\ routes'[j].key = [ ae |-> tlv.ae, plen |-> tlv.plen,
                                                prefix |-> tlv.prefix ]
                          /\ routes'[j].router_id = Unwrap(ExpectedRid(rx, i))
                          /\ routes'[j].next_hop = ExpectedHop(rx, i)
      ]_vars

\* a source was pruned and its NeighborDown pushed; then its bare Update arrived
\* and was installed under the router-id and next-hop of its first datagram
C39_Witness ==
    /\ last.op = "poll"
    /\ last.rx.kind = "Ok"
    /\ Len(last.rx.tlvs) = 1
    /\ last.rx.tlvs[1].type = "Update"
    /\ neighbors[last.rx.src] = None
    /\ Len(emitted) >= 3
    /\ emitted[Len(emitted) - 2] = NeighborDown(last.rx.src)
    /\ Len(routes) = 1
    /\ routes[1].router_id = Rid(1)
    /\ routes[1].next_hop = Some(OtherIp)
    /\ emitted[Len(emitted)] = BestRouteChanged(routes[1].key, routes[1])

\* the route of the most recent BestRouteChanged for the key k in s, if any
LastBest(s, k) ==
    LET I == { i \in 1..Len(s) : s[i].type = "BestRouteChanged" /\ s[i].key = k }
    IN  IF I = {} THEN None ELSE Some(s[Max(I)].route)

\* two optional routes agree in metric, seqno, router-id and next-hop
Agree(a, b) ==
    IF a = None \/ b = None THEN a = b
    ELSE /\ Unwrap(a).metric = Unwrap(b).metric
         /\ Unwrap(a).seqno = Unwrap(b).seqno
         /\ Unwrap(a).router_id = Unwrap(b).router_id
         /\ Unwrap(a).next_hop = Unwrap(b).next_hop

\* C40: for every key that has a route, the route of the most recently pushed
\* BestRouteChanged for the key agrees with best_route(key) in metric, seqno,
\* router-id and next-hop; and the best route of a key does not change in a step
\* that pushes no BestRouteChanged for the key.
C40_BestTracked ==
    /\ [](\A i \in 1..Len(routes) :
             Agree(LastBest(emitted, routes[i].key), best_route(routes, routes[i].key)))
    /\ [][ \A k \in Keys :
             best_route(routes', k) # best_route(routes, k) =>
                \E i \in (Len(emitted) + 1)..Len(emitted') :
                    /\ emitted'[i].type = "BestRouteChanged"
                    /\ emitted'[i].key = k
         ]_vars

\* two routes tie for a key: the best is the later entry of the table, a route of
\* another source than the first, and the last BestRouteChanged announced it; the
\* caller has drained the queue meanwhile
C40_Witness ==
    /\ Len(routes) >= 2
    /\ routes[1].key = routes[2].key
    /\ routes[1].metric = routes[2].metric
    /\ routes[1].seqno = routes[2].seqno
    /\ IsSome(routes[1].next_hop)
    /\ best_route(routes, routes[1].key) = Some(routes[Len(routes)])
    /\ LastBest(emitted, routes[1].key) = Some(routes[Len(routes)])
    /\ events = << >>
    /\ Len(emitted) >= 4

====
